---- MODULE Spec2Model ----
(***************************************************************************)
(* Pivoted LDL factorization (include/elemental/lapack-like/LDL/Pivoted.hpp)*)
(* and the distribution proxies (El core Proxy.hpp) of Elemental.           *)
(*                                                                          *)
(* Scalars are exact: an element of F is (re + im*i)/den, kept in lowest    *)
(* terms, so that the algebraic identities of the factorization can be      *)
(* checked exactly.  A division by zero gives the non-finite value NaN,     *)
(* which every later operation propagates.                                  *)
(***************************************************************************)
EXTENDS Integers, Sequences, FiniteSets, TLC

\* ------------------------------------------------------------------------
\* Bounds of the model
\* ------------------------------------------------------------------------
MaxN == 3
MaxBsize == 2

\* ------------------------------------------------------------------------
\* Exact scalars
\* ------------------------------------------------------------------------
IAbs(x) == IF x < 0 THEN -x ELSE x

RECURSIVE GCD(_, _)
GCD(a, b) == IF b = 0 THEN a ELSE GCD(b, a % b)

NaN == <<0, 0, 0>>
IsNaN(x) == x[3] = 0

Norm(a, b, d) ==
    IF d = 0 THEN NaN
    ELSE LET g == GCD(GCD(IAbs(a), IAbs(b)), IAbs(d))
             s == IF d < 0 THEN -1 ELSE 1
         IN  <<(s * a) \div g, (s * b) \div g, (s * d) \div g>>

Re(a) == <<a, 0, 1>>
Cx(a, b) == <<a, b, 1>>
Zero == Re(0)
One == Re(1)

Add(x, y) ==
    IF IsNaN(x) \/ IsNaN(y) THEN NaN
    ELSE Norm(x[1] * y[3] + y[1] * x[3], x[2] * y[3] + y[2] * x[3], x[3] * y[3])

Neg(x) == <<-x[1], -x[2], x[3]>>

Sub(x, y) == Add(x, Neg(y))

Mul(x, y) ==
    IF IsNaN(x) \/ IsNaN(y) THEN NaN
    ELSE Norm(x[1] * y[1] - x[2] * y[2], x[1] * y[2] + x[2] * y[1], x[3] * y[3])

Conj(x) == <<x[1], -x[2], x[3]>>

\* F(1)/x ; a zero divisor gives a non-finite result
Inv(x) ==
    IF IsNaN(x) \/ (x[1] = 0 /\ x[2] = 0) THEN NaN
    ELSE Norm(x[1] * x[3], -(x[2] * x[3]), x[1] * x[1] + x[2] * x[2])

Div(x, y) == Mul(x, Inv(y))

\* MakeReal: drop the imaginary part
RealPart(x) == IF IsNaN(x) THEN NaN ELSE Norm(x[1], 0, x[3])

\* Non-negative rationals <<num, den>> hold squared magnitudes |x|^2.
\* The magnitude of a NaN compares false with everything: it is given the
\* value -1, below every magnitude, so that "abs > value" never holds for it.
AbsSq(x) ==
    IF IsNaN(x) THEN <<-1, 1>>
    ELSE LET g == x[3] * x[3]
             m == x[1] * x[1] + x[2] * x[2]
             h == GCD(m, g)
         IN  <<m \div h, g \div h>>

RLess(p, q) == p[1] * q[2] < q[1] * p[2]
RLeq(p, q) == p[1] * q[2] <= q[1] * p[2]
RMax(p, q) == IF RLess(p, q) THEN q ELSE p
RNorm(a, b) == LET h == GCD(IAbs(a), IAbs(b)) IN
               IF b < 0 THEN <<(-a) \div h, (-b) \div h>> ELSE <<a \div h, b \div h>>
RMul(p, q) == RNorm(p[1] * q[1], p[2] * q[2])
RZero == <<0, 1>>

\* ------------------------------------------------------------------------
\* Thresholds.  The caller's gamma is a rational <<num, den>>; gamma = 0
\* selects the default of the strategy.  The default of the A strategy,
\* (1+sqrt(17))/8, is irrational and is compared exactly:
\*   |x| >= gamma |y|  <=>  32|x|^2 - 9|y|^2 >= sqrt(17) |y|^2 .
\* ------------------------------------------------------------------------
GammaA(gamma) ==
    IF gamma = RZero THEN [kind |-> "sqrt17", g2 |-> RZero]
    ELSE [kind |-> "rat", g2 |-> RMul(gamma, gamma)]

GammaD(gamma) ==
    IF gamma = RZero THEN [kind |-> "rat", g2 |-> RNorm(525 * 525, 1000 * 1000)]
    ELSE [kind |-> "rat", g2 |-> RMul(gamma, gamma)]

\* x2, y2 are squared magnitudes:  sqrt(x2) >= gamma * sqrt(y2)
GeGamma(th, x2, y2) ==
    IF x2[1] < 0 \/ y2[1] < 0 THEN FALSE
    ELSE IF th.kind = "rat" THEN RLeq(RMul(th.g2, y2), x2)
    ELSE IF y2[1] = 0 THEN TRUE
    ELSE LET u == RNorm(32 * x2[1] * y2[2] - 9 * y2[1] * x2[2], y2[1] * x2[2])
         IN  u[1] >= 0 /\ u[1] * u[1] >= 17 * u[2] * u[2]

\* alpha >= gamma*omega*(omega/rho), on squared magnitudes; omega/0 is not
\* finite and the comparison is then false
GeGammaRatio(th, alpha2, omega2, rho2) ==
    IF rho2[1] <= 0 \/ omega2[1] < 0 THEN FALSE
    ELSE GeGamma(th, alpha2, RNorm(omega2[1] * omega2[1] * rho2[2],
                                   omega2[2] * omega2[2] * rho2[1]))

\* ------------------------------------------------------------------------
\* Vector and matrix helpers.  Matrices are functions M[i][j] with 0-based
\* indices; a vector handed to VectorMax is a sequence.
\* ------------------------------------------------------------------------
SetMin(S) == CHOOSE x \in S : \A y \in S : x <= y

\* VectorMax: largest magnitude and the first index where it is attained
\* (index 0, value 0 for an empty or all-zero vector)
VectorMax(v) ==
    LET mag(i) == AbsSq(v[i])
        best == {i \in 1..Len(v) : /\ RLess(RZero, mag(i))
                                   /\ \A j \in 1..Len(v) : RLeq(mag(j), mag(i))}
    IN  IF best = {} THEN [value |-> RZero, index |-> 0]
        ELSE [value |-> mag(SetMin(best)), index |-> SetMin(best) - 1]

\* ViewRange( A, k, k, n, n )
ViewBR(M, k, n) == [i \in 0..(n - k - 1) |-> [j \in 0..(n - k - 1) |-> M[k + i][k + j]]]

\* sum_{c<k} X(i,c) Y(j,c)
RECURSIVE DotK(_, _, _, _, _)
DotK(X, i, Y, j, k) ==
    IF k = 0 THEN Zero ELSE Add(DotK(X, i, Y, j, k - 1), Mul(X[i][k - 1], Y[j][k - 1]))

\* ------------------------------------------------------------------------
\* Pivot selection (namespace ldl::pivot)
\* ------------------------------------------------------------------------
Singular == [status |-> "singular", nb |-> 0, from |-> <<>>]
Pivot1(i) == [status |-> "ok", nb |-> 1, from |-> <<i>>]
Pivot2(i, j) == [status |-> "ok", nb |-> 2, from |-> <<i, j>>]

\* a search that goes from the first test straight to the test of A(r,r)
BunchKaufmanANoRatio(M, n, gamma) ==
    LET th == GammaA(gamma)
        alpha11Abs == AbsSq(M[0][0])
        a21Max == VectorMax([i \in 1..(n - 1) |-> M[i][0]])
        r == a21Max.index + 1
        leftMax == VectorMax([j \in 1..r |-> M[r][j - 1]])
        bottomMax == VectorMax([i \in 1..(n - r - 1) |-> M[r + i][r]])
        rowMaxVal == RMax(leftMax.value, bottomMax.value)
    IN  IF a21Max.value = RZero /\ alpha11Abs = RZero THEN Singular
        ELSE IF GeGamma(th, alpha11Abs, a21Max.value) THEN Pivot1(0)
        ELSE IF GeGamma(th, AbsSq(M[r][r]), rowMaxVal) THEN Pivot1(r)
        ELSE Pivot2(0, r)

\* a row maximum that leaves out the part of row r left of the diagonal
SearchRowMaxBelow(M, m, r, withDiag) ==
    IF withDiag THEN VectorMax([i \in 1..(m - r) |-> M[r + i - 1][r]]).value
    ELSE VectorMax([i \in 1..(m - r - 1) |-> M[r + i][r]]).value

\* rowMaxVal of a search on the block M of height m, r being the row of the
\* column maximum: Max( leftMax.value, bottomMax.value ); the bottom part
\* starts at the diagonal in strategy D and below it in strategy A
SearchRowMax(M, m, r, withDiag) ==
    LET leftMax == VectorMax([j \in 1..r |-> M[r][j - 1]])
        bottomMax == IF withDiag THEN VectorMax([i \in 1..(m - r) |-> M[r + i - 1][r]])
                     ELSE VectorMax([i \in 1..(m - r - 1) |-> M[r + i][r]])
    IN  RMax(leftMax.value, bottomMax.value)

BunchKaufmanA(M, n, gamma) ==
    LET th == GammaA(gamma)
        alpha11Abs == AbsSq(M[0][0])
        a21Max == VectorMax([i \in 1..(n - 1) |-> M[i][0]])
        r == a21Max.index + 1
        rowMaxVal == SearchRowMax(M, n, r, FALSE)
    IN  IF a21Max.value = RZero /\ alpha11Abs = RZero THEN Singular
        ELSE IF GeGamma(th, alpha11Abs, a21Max.value) THEN Pivot1(0)
        ELSE IF GeGammaRatio(th, alpha11Abs, a21Max.value, rowMaxVal) THEN Pivot1(0)
        ELSE IF GeGamma(th, AbsSq(M[r][r]), rowMaxVal) THEN Pivot1(r)
        ELSE Pivot2(0, r)

\* a search whose row maximum leaves out the diagonal entry, as strategy A does
BunchKaufmanDStrictBottom(M, n, gamma) ==
    LET th == GammaD(gamma)
        alpha11Abs == AbsSq(M[0][0])
        a21Max == VectorMax([i \in 1..(n - 1) |-> M[i][0]])
        r == a21Max.index + 1
        leftMax == VectorMax([j \in 1..r |-> M[r][j - 1]])
        bottomMax == VectorMax([i \in 1..(n - r - 1) |-> M[r + i][r]])
        rowMaxVal == RMax(leftMax.value, bottomMax.value)
    IN  IF a21Max.value = RZero /\ alpha11Abs = RZero THEN Singular
        ELSE IF GeGamma(th, alpha11Abs, a21Max.value) THEN Pivot1(0)
        ELSE IF GeGammaRatio(th, alpha11Abs, a21Max.value, rowMaxVal) THEN Pivot1(0)
        ELSE Pivot2(0, r)

BunchKaufmanD(M, n, gamma) ==
    LET th == GammaD(gamma)
        alpha11Abs == AbsSq(M[0][0])
        a21Max == VectorMax([i \in 1..(n - 1) |-> M[i][0]])
        r == a21Max.index + 1
        rowMaxVal == SearchRowMax(M, n, r, TRUE)
    IN  IF a21Max.value = RZero /\ alpha11Abs = RZero THEN Singular
        ELSE IF GeGamma(th, alpha11Abs, a21Max.value) THEN Pivot1(0)
        ELSE IF GeGammaRatio(th, alpha11Abs, a21Max.value, rowMaxVal) THEN Pivot1(0)
        ELSE Pivot2(0, r)

\* DiagonalMax: largest diagonal magnitude, first index
DiagonalMax(M, n) == VectorMax([i \in 1..n |-> M[i - 1][i - 1]])

\* SymmetricMax( LOWER, A ): largest magnitude of the strict lower triangle,
\* scanned column by column; indices = <<row, column>>
SymmetricMax(M, n) ==
    LET mag(i, j) == AbsSq(M[i][j])
        P == {ij \in (0..(n - 1)) \X (0..(n - 1)) : ij[1] > ij[2]}
        best == {ij \in P : /\ RLess(RZero, mag(ij[1], ij[2]))
                            /\ \A q \in P : RLeq(mag(q[1], q[2]), mag(ij[1], ij[2]))}
        first == CHOOSE ij \in best : \A q \in best :
                     ij[2] < q[2] \/ (ij[2] = q[2] /\ ij[1] <= q[1])
    IN  IF best = {} THEN [value |-> RZero, indices |-> <<0, 0>>]
        ELSE [value |-> mag(first[1], first[2]), indices |-> first]

BunchParlett(M, n, gamma) ==
    LET th == GammaA(gamma)
        diagMax == DiagonalMax(M, n)
        offDiagMax == SymmetricMax(M, n)
    IN  IF GeGamma(th, diagMax.value, offDiagMax.value) THEN Pivot1(diagMax.index)
        ELSE Pivot2(offDiagMax.indices[1], offDiagMax.indices[2])

\* a pivot found in the trailing block from (k,k), in the indices of the block
\* it was cut from
ShiftPivot(pv, k) ==
    IF pv.status = "ok" THEN [pv EXCEPT !.from = [t \in 1..pv.nb |-> pv.from[t] + k]] ELSE pv

\* a panel search that reads A without the pending correction
PanelBunchKaufmanAUncorrected(M, n, X, Y, k, gamma) ==
    ShiftPivot(BunchKaufmanA(ViewBR(M, k, n), n - k, gamma), k)

\* The panel variants read column k and row r of ABR - X(:,0:k-1) Y(:,0:k-1)^T
\* from copies (zB1, zLeft, zBottom); A, X and Y are not written.
PanelBunchKaufmanA(M, n, X, Y, k, gamma) ==
    LET th == GammaA(gamma)
        zB1 == [i \in 0..(n - k - 1) |-> Sub(M[k + i][k], DotK(X, k + i, Y, k, k))]
        alpha11Abs == AbsSq(zB1[0])
        a21Max == VectorMax([i \in 1..(n - k - 1) |-> zB1[i]])
        r == a21Max.index + (k + 1)
        zLeft == [j \in 1..(r - k) |-> Sub(M[r][k + j - 1], DotK(Y, k + j - 1, X, r, k))]
        zBottom == [i \in 0..(n - r - 1) |-> Sub(M[r + i][r], DotK(X, r + i, Y, r, k))]
        leftMax == VectorMax(zLeft)
        bottomMax == VectorMax([i \in 1..(n - r - 1) |-> zBottom[i]])
        rowMaxVal == RMax(leftMax.value, bottomMax.value)
    IN  IF a21Max.value = RZero /\ alpha11Abs = RZero THEN Singular
        ELSE IF GeGamma(th, alpha11Abs, a21Max.value) THEN Pivot1(k)
        ELSE IF GeGammaRatio(th, alpha11Abs, a21Max.value, rowMaxVal) THEN Pivot1(k)
        ELSE IF GeGamma(th, AbsSq(zBottom[0]), rowMaxVal) THEN Pivot1(r)
        ELSE Pivot2(k, r)

PanelBunchKaufmanD(M, n, X, Y, k, gamma) ==
    LET th == GammaD(gamma)
        zB1 == [i \in 0..(n - k - 1) |-> Sub(M[k + i][k], DotK(X, k + i, Y, k, k))]
        alpha11Abs == AbsSq(zB1[0])
        a21Max == VectorMax([i \in 1..(n - k - 1) |-> zB1[i]])
        r == a21Max.index + (k + 1)
        zLeft == [j \in 1..(r - k) |-> Sub(M[r][k + j - 1], DotK(Y, k + j - 1, X, r, k))]
        zBottom == [i \in 0..(n - r - 1) |-> Sub(M[r + i][r], DotK(X, r + i, Y, r, k))]
        leftMax == VectorMax(zLeft)
        bottomMax == VectorMax([i \in 1..(n - r) |-> zBottom[i - 1]])
        rowMaxVal == RMax(leftMax.value, bottomMax.value)
    IN  IF a21Max.value = RZero /\ alpha11Abs = RZero THEN Singular
        ELSE IF GeGamma(th, alpha11Abs, a21Max.value) THEN Pivot1(k)
        ELSE IF GeGammaRatio(th, alpha11Abs, a21Max.value, rowMaxVal) THEN Pivot1(k)
        ELSE Pivot2(k, r)

LogicErr == [status |-> "logic", nb |-> 0, from |-> <<>>]

ChoosePivot(M, n, pivotType, gamma) ==
    CASE pivotType \in {"BUNCH_KAUFMAN_A", "BUNCH_KAUFMAN_C"} -> BunchKaufmanA(M, n, gamma)
      [] pivotType = "BUNCH_KAUFMAN_D" -> BunchKaufmanD(M, n, gamma)
      [] pivotType = "BUNCH_PARLETT" -> BunchParlett(M, n, gamma)
      [] OTHER -> LogicErr

ChoosePanelPivot(M, n, X, Y, k, pivotType, gamma) ==
    CASE pivotType \in {"BUNCH_KAUFMAN_A", "BUNCH_KAUFMAN_C"} ->
             PanelBunchKaufmanA(M, n, X, Y, k, gamma)
      [] pivotType = "BUNCH_KAUFMAN_D" -> PanelBunchKaufmanD(M, n, X, Y, k, gamma)
      [] OTHER -> LogicErr

\* ------------------------------------------------------------------------
\* Dense kernels used by the factorization
\* ------------------------------------------------------------------------
Zeros(h, w) == [i \in 0..(h - 1) |-> [j \in 0..(w - 1) |-> Zero]]

\* entry (i,j) of the symmetric (Hermitian) matrix whose lower triangle is M
SymEntry(M, i, j, conjugate) ==
    IF i >= j THEN M[i][j] ELSE IF conjugate THEN Conj(M[j][i]) ELSE M[j][i]

\* SymmetricSwap( LOWER, A, to, from, conjugate ): P A P^T for the
\* transposition of to and from, written to the lower triangle only
SymmetricSwap(M, n, to, from, conjugate) ==
    LET pi(i) == IF i = to THEN from ELSE IF i = from THEN to ELSE i
    IN  IF to = from THEN M
        ELSE [i \in 0..(n - 1) |-> [j \in 0..(n - 1) |->
                 IF i >= j THEN SymEntry(M, pi(i), pi(j), conjugate) ELSE M[i][j]]]

\* RowSwap( X, to, from )
RowSwap(X, to, from) ==
    [i \in DOMAIN X |-> IF i = to THEN X[from] ELSE IF i = from THEN X[to] ELSE X[i]]

\* ResizeTo( h, w ) with w no larger than the current width: the leading
\* columns keep their contents
\* a resize that does not keep the entries of the columns that remain
ShrinkWidthCleared(X, w) == [i \in DOMAIN X |-> [j \in 0..(w - 1) |-> Zero]]

ShrinkWidth(X, w) == [i \in DOMAIN X |-> [j \in 0..(w - 1) |-> X[i][j]]]

\* Symmetric2x2Solve( RIGHT, LOWER, D, A21, conjugate ): one row <<a0, a1>>
\* of A21 := A21 inv(D), D read from its lower triangle
Symmetric2x2SolveRow(d11, d21, d22, a0, a1, conjugate) ==
    LET d12 == IF conjugate THEN Conj(d21) ELSE d21
        det == Sub(Mul(d11, d22), Mul(d12, d21))
    IN  << Div(Sub(Mul(a0, d22), Mul(a1, d21)), det),
           Div(Sub(Mul(a1, d11), Mul(a0, d12)), det) >>

\* ------------------------------------------------------------------------
\* State of one call of ldl::Pivoted, ldl::BlockedPivoted or
\* ldl::UnblockedPivoted
\* ------------------------------------------------------------------------
VARIABLES
    A,          \* the matrix, full storage; the lower triangle is factored
    dSub,       \* sub-diagonal of D, 0-based
    dSubH,      \* dSub.Height()
    p,          \* pivot vector, 0-based; -1 marks an entry not yet written
    pH,         \* p.Height()
    X, Y,       \* update factors of the current panel
    XW, YW,     \* X.Width(), Y.Width()
    n,          \* A.Height()
    conjugate, pivotType, gamma,
    bsize,      \* the value BlockedPivoted read from Blocksize(); 0 before
    k,          \* offset of BlockedPivoted / UnblockedPivoted
    nbProp,     \* bsize handed to PanelPivoted
    kp,         \* local column k of PanelPivoted
    pivot,      \* the pivot record of the current step
    pc,         \* position in the call
    err,        \* "none", "singular" or "logic"
    A0,         \* the input matrix
    caller,     \* "Pivoted" when the call came through Pivoted, else "user"
    last        \* what the last executed step did

ldlVars == <<A, dSub, dSubH, p, pH, X, Y, XW, YW, n, conjugate, pivotType, gamma,
             bsize, k, nbProp, kp, pivot, pc, err, A0, caller, last>>

PivotTypes == {"BUNCH_KAUFMAN_A", "BUNCH_KAUFMAN_C", "BUNCH_KAUFMAN_D", "BUNCH_PARLETT"}

\* values an input entry is drawn from
DiagVals == {Re(0), Re(1)}
OffVals == {Re(0), Re(1), Re(2), Cx(0, 1)}
Gammas == {RZero}

StrictLower(m) == {ij \in (0..(m - 1)) \X (0..(m - 1)) : ij[1] > ij[2]}

\* symmetric (Hermitian when conj) m x m matrices in full storage
InputMatrices(m, conj) ==
    { [i \in 0..(m - 1) |-> [j \in 0..(m - 1) |->
          IF i = j THEN d[i]
          ELSE IF i > j THEN o[<<i, j>>]
          ELSE IF conj THEN Conj(o[<<j, i>>]) ELSE o[<<j, i>>]]] :
      d \in [0..(m - 1) -> DiagVals], o \in [StrictLower(m) -> OffVals] }

\* inputs of the documented scenarios that the sets above do not hold
\* a 3 x 3 input whose first column has alpha = 1, omega = 2 and rho = 3
MatrixRatio ==
    [i \in 0..2 |-> [j \in 0..2 |->
        CASE {i, j} = {0} -> Re(1)
          [] {i, j} = {0, 1} -> Re(2)
          [] {i, j} = {1, 2} -> Re(3)
          [] OTHER -> Re(0)]]

\* a 2 x 2 input whose row 1 has its largest magnitude on the diagonal
MatrixDiag ==
    [i \in 0..1 |-> [j \in 0..1 |->
        CASE {i, j} = {0} -> Re(1)
          [] {i, j} = {1} -> Re(3)
          [] OTHER -> Re(2)]]

ScenarioMatrices(m) ==
    IF m = 1 THEN {[i \in 0..0 |-> [j \in 0..0 |-> Re(5)]]}
    ELSE IF m = 2 THEN {MatrixDiag}
    ELSE {MatrixRatio}

NoPivot == [status |-> "none", nb |-> 0, from |-> <<>>]

NoStep == [in |-> "none", off |-> 0, kind |-> "none", nb |-> 0,
           swaps |-> <<>>, swapsX |-> <<>>, swapsY |-> <<>>, dist |-> FALSE]

\* ------------------------------------------------------------------------
\* State of one distributed matrix A handed to a proxy or to Copy
\* ------------------------------------------------------------------------
VARIABLES
    orig,           \* the source matrix A (orig_)
    fresh,          \* the matrix a proxy allocated / the target B of Copy
    back,           \* the matrix A' of a round trip
    proxy,          \* the proxy object: its kind, template arguments and flags
    ctrl,           \* the ElementalProxyCtrl handed to the constructor
    unwinding,      \* uncaught_exception()
    events,         \* the operations performed on behalf of the proxy, in order
    written,        \* the last Set made through Get()
    orig0,          \* the entries of the source before the proxy was built
    ppc             \* position in the scenario

proxyVars == <<orig, fresh, back, proxy, ctrl, unwinding, events, written, orig0, ppc>>

\* ------------------------------------------------------------------------
\* State of a caller of the C interface holding one matrix handle
\* ------------------------------------------------------------------------
VARIABLES
    handle,         \* the matrix behind AHandle
    outHandle,      \* the matrix behind the output handle; none while unwritten
    valOut,         \* what was stored through an output value pointer; empty while unwritten
    retCode,        \* the ElError the last call returned
    lastCall,       \* the last call: its name, its arguments, what it raised
    bpc             \* position of the caller

bindVars == <<handle, outHandle, valOut, retCode, lastCall, bpc>>

\* ------------------------------------------------------------------------
\* State of the workers of a grid running the distributed panel
\* ------------------------------------------------------------------------
VARIABLES
    wpivot,         \* the pivot record each worker obtained at this step
    wpc,            \* the branch each worker took at this step
    wops            \* the collective operations each worker entered, in order

workerVars == <<wpivot, wpc, wops>>

\* ------------------------------------------------------------------------
\* State of one call of a factorization routine with operands of any shape,
\* up to the point where its argument checks have passed
\* ------------------------------------------------------------------------
VARIABLES
    call,           \* the routine called, its overload, its build and arguments
    operands,       \* height, width and alignments of A, dSub, p, X and Y
    operands0,      \* the operands as they were handed to the call
    epc,            \* position in the call
    eerr            \* message of the LogicError raised; "none" when none

entryVars == <<call, operands, operands0, epc, eerr>>

vars == <<ldlVars, proxyVars, bindVars, workerVars, entryVars>>

NoCall == [name |-> "none"]

NoMatrix == [type |-> "none"]

NoProxy == [kind |-> "none"]

NoCtrl == [colConstrain |-> FALSE, rowConstrain |-> FALSE, rootConstrain |-> FALSE,
           colAlign |-> 0, rowAlign |-> 0, root |-> 0]

NoWrite == [i |-> -1, j |-> -1, v |-> 0]

InitLDL ==
    /\ n \in 0..MaxN
    /\ conjugate \in BOOLEAN
    /\ pivotType \in PivotTypes
    /\ gamma \in Gammas
    /\ A0 \in InputMatrices(n, conjugate) \cup ScenarioMatrices(n)
    /\ A = A0
    /\ caller = "user"
    /\ dSub = <<>> /\ dSubH = 0
    /\ p = <<>> /\ pH = 0
    /\ X = <<>> /\ Y = <<>> /\ XW = 0 /\ YW = 0
    /\ bsize = 0 /\ k = 0 /\ nbProp = 0 /\ kp = 0
    /\ pivot = NoPivot
    /\ pc = "start"
    /\ err = "none"
    /\ last = NoStep
    \* no proxy and no copy is in progress
    /\ orig = NoMatrix /\ fresh = NoMatrix /\ back = NoMatrix
    /\ proxy = NoProxy
    /\ ctrl = NoCtrl
    /\ unwinding = FALSE
    /\ events = <<>>
    /\ written = NoWrite
    /\ orig0 = <<>>
    /\ ppc = "idle"
    \* no caller of the C interface, no grid of workers
    /\ handle = NoMatrix /\ outHandle = NoMatrix /\ valOut = <<>>
    /\ retCode = "none" /\ lastCall = NoCall /\ bpc = "idle"
    /\ wpivot = <<>> /\ wpc = <<>> /\ wops = <<>>
    /\ call = NoCall /\ operands = <<>> /\ operands0 = <<>> /\ epc = "idle" /\ eerr = "none"

\* ------------------------------------------------------------------------
\* Steps of PanelPivoted, BlockedPivoted and UnblockedPivoted as operators
\* ------------------------------------------------------------------------
Min(a, b) == IF a < b THEN a ELSE b

C(conj, x) == IF conj THEN Conj(x) ELSE x

\* a switch that sends every strategy to BlockedPivoted
PivotedAllBlocked(pt) == TRUE

\* Pivoted: the strategies sent to BlockedPivoted
PivotedIsBlocked(pt) == pt \in {"BUNCH_KAUFMAN_A", "BUNCH_KAUFMAN_C", "BUNCH_KAUFMAN_D"}

\* The early return "if( n == 0 ) { dSub.ResizeTo(0,1); p.ResizeTo(0,1); return; }"
\* is present in both BlockedPivoted overloads and in the sequential
\* UnblockedPivoted; the DistMatrix overload of UnblockedPivoted has none.
HasEmptyReturn(blocked, isDist) == blocked \/ ~isDist

\* BlockedPivoted: nbProp
BlockedNbProp(bs, nn, kk) == Min(bs, nn - kk)

\* a panel that reads the first index of the pivot, whatever its size
PanelFromFirst(off, pv) == off + pv.from[1]

\* PanelPivoted: from and to of the swap
\* a from that is left local to the trailing block
PanelFromLocal(off, pv) == pv.from[pv.nb]

PanelFrom(off, pv) == off + pv.from[pv.nb]
PanelTo(off, kk, pv) == (off + kk) + (pv.nb - 1)

\* PanelPivoted: the overflow test and the width X and Y are shrunk to
PanelOverflows(kk, pv, bs) == kk + pv.nb > bs

\* an overflow that leaves X and Y at their full width
PanelOverflowWidthFull(bs) == bs

PanelOverflowWidth(bs) == bs - 1

\* a panel that swaps as UnblockedPivoted does: one swap per pivot column
PanelSwapsPerColumn(off, kk, pv) ==
    IF pv.nb = 1 THEN << <<off + kk, off + pv.from[1]>> >>
    ELSE << <<off + kk, off + pv.from[1]>>, <<off + kk + 1, off + pv.from[2]>> >>

\* PanelPivoted: the swaps applied to A (global indices) in a step that fits
PanelSwaps(off, kk, pv) == << <<PanelTo(off, kk, pv), PanelFrom(off, pv)>> >>

\* a step that swaps A and leaves the rows of X and Y where they are
PanelRowSwapsNone(off, kk, pv) == <<>>

\* PanelPivoted: the row swaps applied to X and to Y (indices local to the panel)
PanelRowSwaps(off, kk, pv) ==
    << <<PanelTo(off, kk, pv) - off, PanelFrom(off, pv) - off>> >>

\* UnblockedPivoted: the swaps applied to A
UnblockedSwaps(kk, pv) ==
    IF pv.nb = 1 THEN << <<kk, kk + pv.from[1]>> >>
    ELSE << <<kk, kk + pv.from[1]>>, <<kk + 1, kk + pv.from[2]>> >>

RECURSIVE ApplySwaps(_, _, _, _)
ApplySwaps(M, nn, swaps, conj) ==
    IF swaps = <<>> THEN M
    ELSE ApplySwaps(SymmetricSwap(M, nn, swaps[1][1], swaps[1][2], conj),
                    nn, Tail(swaps), conj)

RECURSIVE ApplyRowSwaps(_, _)
ApplyRowSwaps(Z, swaps) ==
    IF swaps = <<>> THEN Z
    ELSE ApplyRowSwaps(RowSwap(Z, swaps[1][1], swaps[1][2]), Tail(swaps))

\* PanelPivoted, pivot.nb == 1, after the swap: A1, X1, Y1 are the swapped
\* operands; kk is the local column.
PanelUpdate1(A1, X1, Y1, nn, off, kk, conj) ==
    LET m == nn - off
        aB1(i) == Sub(A1[off + i][off + kk], DotK(X1, i, Y1, kk, kk))
        d == IF conj THEN RealPart(aB1(kk)) ELSE aB1(kk)
        delta11Inv == Inv(d)
    IN  [A |-> [i \in 0..(nn - 1) |-> [j \in 0..(nn - 1) |->
                  IF j = off + kk /\ i = off + kk THEN d
                  ELSE IF j = off + kk /\ i > off + kk THEN Mul(delta11Inv, aB1(i - off))
                  ELSE A1[i][j]]],
         X |-> [i \in 0..(m - 1) |-> [j \in DOMAIN X1[i] |->
                  IF j = kk /\ i > kk THEN Mul(delta11Inv, aB1(i)) ELSE X1[i][j]]],
         Y |-> [i \in 0..(m - 1) |-> [j \in DOMAIN Y1[i] |->
                  IF j = kk /\ i > kk THEN C(conj, aB1(i)) ELSE Y1[i][j]]]]

\* PanelPivoted, pivot.nb == 2, after the swap
PanelUpdate2(A1, X1, Y1, nn, off, kk, conj) ==
    LET m == nn - off
        psi == A1[off + kk][off + kk + 1]
        g(i, j) == Sub(A1[off + i][off + j], DotK(X1, i, Y1, j, kk))
        AB1(i, j) == IF i = kk /\ j = kk + 1 THEN psi
                     ELSE IF conj /\ i = j THEN RealPart(g(i, j)) ELSE g(i, j)
        d11 == AB1(kk, kk)
        d21 == AB1(kk + 1, kk)
        d22 == AB1(kk + 1, kk + 1)
        sol(i) == Symmetric2x2SolveRow(d11, d21, d22, AB1(i, kk), AB1(i, kk + 1), conj)
    IN  [A |-> [i \in 0..(nn - 1) |-> [j \in 0..(nn - 1) |->
                  IF j \in {off + kk, off + kk + 1} /\ i >= off + kk + 2
                      THEN sol(i - off)[j - off - kk + 1]
                  ELSE IF i = off + kk + 1 /\ j = off + kk THEN Zero
                  ELSE IF j \in {off + kk, off + kk + 1} /\ i >= off + kk
                      THEN AB1(i - off, j - off)
                  ELSE A1[i][j]]],
         X |-> [i \in 0..(m - 1) |-> [j \in DOMAIN X1[i] |->
                  IF j \in {kk, kk + 1} /\ i >= kk + 2 THEN sol(i)[j - kk + 1]
                  ELSE X1[i][j]]],
         Y |-> [i \in 0..(m - 1) |-> [j \in DOMAIN Y1[i] |->
                  IF j \in {kk, kk + 1} /\ i >= kk + 2 THEN C(conj, AB1(i, j))
                  ELSE Y1[i][j]]],
         dSub |-> d21]

\* BlockedPivoted: A22BR -= X21B Y21B^T on the lower triangle (Trrk)
TrailingUpdate(M, XX, YY, nn, kk, nb) ==
    [i \in 0..(nn - 1) |-> [j \in 0..(nn - 1) |->
        IF j >= kk + nb /\ i >= j THEN Sub(M[i][j], DotK(XX, i - kk, YY, j - kk, nb))
        ELSE M[i][j]]]

\* UnblockedPivoted, pivot.nb == 1, after the swap: Syr and Scale
UnblockedUpdate1(A1, nn, kk, conj) ==
    LET delta11Inv == Inv(A1[kk][kk])
    IN  [i \in 0..(nn - 1) |-> [j \in 0..(nn - 1) |->
            IF j = kk /\ i > kk THEN Mul(delta11Inv, A1[i][kk])
            ELSE IF j > kk /\ i >= j
                THEN Sub(A1[i][j], Mul(delta11Inv, Mul(A1[i][kk], C(conj, A1[j][kk]))))
            ELSE A1[i][j]]]

\* a 2x2 step that leaves the sub-diagonal entry of the block in A
UnblockedUpdate2KeepsSub(A1, nn, kk, conj) ==
    LET d11 == A1[kk][kk]
        d21 == A1[kk + 1][kk]
        d22 == A1[kk + 1][kk + 1]
        sol(i) == Symmetric2x2SolveRow(d11, d21, d22, A1[i][kk], A1[i][kk + 1], conj)
    IN  [A |-> [i \in 0..(nn - 1) |-> [j \in 0..(nn - 1) |->
                  IF j \in {kk, kk + 1} /\ i >= kk + 2 THEN sol(i)[j - kk + 1]
                  ELSE IF j >= kk + 2 /\ i >= j
                      THEN Sub(A1[i][j],
                               Add(Mul(sol(i)[1], C(conj, A1[j][kk])),
                                   Mul(sol(i)[2], C(conj, A1[j][kk + 1]))))
                  ELSE A1[i][j]]],
         dSub |-> d21]

\* UnblockedPivoted, pivot.nb == 2, after the swaps: Symmetric2x2Solve, Trr2
UnblockedUpdate2(A1, nn, kk, conj) ==
    LET d11 == A1[kk][kk]
        d21 == A1[kk + 1][kk]
        d22 == A1[kk + 1][kk + 1]
        sol(i) == Symmetric2x2SolveRow(d11, d21, d22, A1[i][kk], A1[i][kk + 1], conj)
    IN  [A |-> [i \in 0..(nn - 1) |-> [j \in 0..(nn - 1) |->
                  IF j \in {kk, kk + 1} /\ i >= kk + 2 THEN sol(i)[j - kk + 1]
                  ELSE IF i = kk + 1 /\ j = kk THEN Zero
                  ELSE IF j >= kk + 2 /\ i >= j
                      THEN Sub(A1[i][j],
                               Add(Mul(sol(i)[1], C(conj, A1[j][kk])),
                                   Mul(sol(i)[2], C(conj, A1[j][kk + 1]))))
                  ELSE A1[i][j]]],
         dSub |-> d21]

\* ------------------------------------------------------------------------
\* Actions of the factorization
\* ------------------------------------------------------------------------
Step(where, off, kind, nb, swaps, swapsX, swapsY) ==
    [in |-> where, off |-> off, kind |-> kind, nb |-> nb,
     swaps |-> swaps, swapsX |-> swapsX, swapsY |-> swapsY, dist |-> FALSE]

Entered(isDist) == [NoStep EXCEPT !.kind = "enter", !.dist = isDist]

Unwritten(h) == [i \in 0..(h - 1) |-> -1]

\* Entry code of BlockedPivoted / UnblockedPivoted up to the loop, for the
\* Matrix overload (isDist = FALSE) or the DistMatrix overload
EnterFactorization(blocked, isDist) ==
    /\ last' = Entered(isDist)
    /\ IF n = 0 /\ HasEmptyReturn(blocked, isDist)
       THEN /\ dSub' = <<>> /\ dSubH' = 0
            /\ p' = <<>> /\ pH' = 0
            /\ pc' = "done"
            /\ err' = "none"
            /\ bsize' = bsize
       ELSE IF n = 0
       THEN \* Zeros( dSub, n-1, 1 ) with n = 0 asks for a height of -1: the
            \* checked build rejects it, the unchecked build goes on with it
            /\ \E checked \in BOOLEAN :
                  IF checked
                  THEN dSubH' = dSubH /\ pH' = pH /\ err' = "logic" /\ pc' = "done"
                  ELSE dSubH' = n - 1 /\ pH' = n /\ err' = "none" /\ pc' = "unblocked"
            /\ dSub' = <<>> /\ p' = <<>>
            /\ bsize' = bsize
       ELSE /\ dSub' = [i \in 0..(n - 2) |-> Zero] /\ dSubH' = n - 1
            /\ p' = Unwritten(n) /\ pH' = n
            /\ pc' = IF blocked THEN "blocked" ELSE "unblocked"
            /\ err' = "none"
            /\ IF blocked THEN bsize' \in 1..MaxBsize ELSE bsize' = bsize

CallPivoted ==
    /\ pc = "start"
    /\ pc' = "pivoted"
    /\ caller' = "Pivoted"
    /\ UNCHANGED <<entryVars, bindVars, workerVars, proxyVars, A, dSub, dSubH, p, pH, X, Y, XW, YW, n, conjugate, pivotType,
                   gamma, bsize, k, nbProp, kp, pivot, err, A0, last>>

PivotedSwitch ==
    /\ pc = "pivoted"
    /\ \E isDist \in BOOLEAN : EnterFactorization(PivotedIsBlocked(pivotType), isDist)
    /\ UNCHANGED <<entryVars, bindVars, workerVars, proxyVars, A, X, Y, XW, YW, n, conjugate, pivotType, gamma,
                   k, nbProp, kp, pivot, A0, caller>>

CallBlockedPivoted ==
    /\ pc = "start"
    /\ \E isDist \in BOOLEAN : EnterFactorization(TRUE, isDist)
    /\ UNCHANGED <<entryVars, bindVars, workerVars, proxyVars, A, X, Y, XW, YW, n, conjugate, pivotType, gamma,
                   k, nbProp, kp, pivot, A0, caller>>

CallUnblockedPivoted ==
    /\ pc = "start"
    /\ \E isDist \in BOOLEAN : EnterFactorization(FALSE, isDist)
    /\ UNCHANGED <<entryVars, bindVars, workerVars, proxyVars, A, X, Y, XW, YW, n, conjugate, pivotType, gamma,
                   k, nbProp, kp, pivot, A0, caller>>

\* BlockedPivoted: loop head with k < n, and the entry code of PanelPivoted
BlockedOpenPanel ==
    /\ pc = "blocked" /\ k < n
    /\ nbProp' = BlockedNbProp(bsize, n, k)
    /\ X' = Zeros(n - k, nbProp') /\ XW' = nbProp'
    /\ Y' = Zeros(n - k, nbProp') /\ YW' = nbProp'
    /\ kp' = 0
    /\ pc' = "panel"
    /\ UNCHANGED <<entryVars, bindVars, workerVars, proxyVars, A, dSub, dSubH, p, pH, n, conjugate, pivotType, gamma, bsize,
                   k, pivot, err, A0, caller, last>>

BlockedReturn ==
    /\ pc = "blocked" /\ k >= n
    /\ pc' = "done"
    /\ UNCHANGED <<entryVars, bindVars, workerVars, proxyVars, A, dSub, dSubH, p, pH, X, Y, XW, YW, n, conjugate, pivotType,
                   gamma, bsize, k, nbProp, kp, pivot, err, A0, caller, last>>

\* a panel that makes the diagonal-maximum swap and goes on to the pivot search
PanelBunchKaufmanCSilent ==
    /\ pc = "panel" /\ kp < nbProp /\ pivotType = "BUNCH_KAUFMAN_C"
    /\ LET diagMax == DiagonalMax(ViewBR(A, k + kp, n), n - k - kp)
           sw == << <<k + kp, k + kp + diagMax.index>> >>
           rsw == << <<kp, kp + diagMax.index>> >>
       IN  /\ A' = ApplySwaps(A, n, sw, conjugate)
           /\ X' = ApplyRowSwaps(X, rsw)
           /\ Y' = ApplyRowSwaps(Y, rsw)
           /\ pivot' = ChoosePanelPivot(ViewBR(A', k, n), n - k, X', Y', kp, pivotType, gamma)
    /\ pc' = "panel_pivot"
    /\ UNCHANGED <<entryVars, bindVars, workerVars, proxyVars, dSub, dSubH, p, pH, XW, YW, n, conjugate,
                   pivotType, gamma, bsize, k, nbProp, kp, err, A0, caller, last>>

\* PanelPivoted, pivotType == BUNCH_KAUFMAN_C: swap the largest diagonal
\* entry to the front, then LogicError
PanelBunchKaufmanC ==
    /\ pc = "panel" /\ kp < nbProp /\ pivotType = "BUNCH_KAUFMAN_C"
    /\ LET diagMax == DiagonalMax(ViewBR(A, k + kp, n), n - k - kp)
           sw == << <<k + kp, k + kp + diagMax.index>> >>
           rsw == << <<kp, kp + diagMax.index>> >>
       IN  /\ A' = ApplySwaps(A, n, sw, conjugate)
           /\ X' = ApplyRowSwaps(X, rsw)
           /\ Y' = ApplyRowSwaps(Y, rsw)
           /\ last' = Step("panel", k, "logic", 0, sw, rsw, rsw)
    /\ err' = "logic"
    /\ pc' = "done"
    /\ UNCHANGED <<entryVars, bindVars, workerVars, proxyVars, dSub, dSubH, p, pH, XW, YW, n, conjugate, pivotType, gamma,
                   bsize, k, nbProp, kp, pivot, A0, caller>>

\* PanelPivoted: const auto pivot = ChoosePanelPivot( ABR, X, Y, k, ... )
PanelChoose ==
    /\ pc = "panel" /\ kp < nbProp /\ pivotType # "BUNCH_KAUFMAN_C"
    /\ pivot' = ChoosePanelPivot(ViewBR(A, k, n), n - k, X, Y, kp, pivotType, gamma)
    /\ pc' = "panel_pivot"
    /\ UNCHANGED <<entryVars, bindVars, workerVars, proxyVars, A, dSub, dSubH, p, pH, X, Y, XW, YW, n, conjugate, pivotType,
                   gamma, bsize, k, nbProp, kp, err, A0, caller, last>>

\* the pivot selection raised
PanelFail ==
    /\ pc = "panel_pivot" /\ pivot.status # "ok"
    /\ err' = pivot.status
    /\ pc' = "done"
    /\ last' = Step("panel", k, pivot.status, 0, <<>>, <<>>, <<>>)
    /\ UNCHANGED <<entryVars, bindVars, workerVars, proxyVars, A, dSub, dSubH, p, pH, X, Y, XW, YW, n, conjugate, pivotType,
                   gamma, bsize, k, nbProp, kp, pivot, A0, caller>>

PanelOverflow ==
    /\ pc = "panel_pivot" /\ pivot.status = "ok"
    /\ PanelOverflows(kp, pivot, nbProp)
    /\ X' = ShrinkWidth(X, PanelOverflowWidth(nbProp)) /\ XW' = PanelOverflowWidth(nbProp)
    /\ Y' = ShrinkWidth(Y, PanelOverflowWidth(nbProp)) /\ YW' = PanelOverflowWidth(nbProp)
    /\ pc' = "update"
    /\ last' = Step("panel", k, "overflow", pivot.nb, <<>>, <<>>, <<>>)
    /\ UNCHANGED <<entryVars, bindVars, workerVars, proxyVars, A, dSub, dSubH, p, pH, n, conjugate, pivotType, gamma, bsize,
                   k, nbProp, kp, pivot, err, A0, caller>>

PanelStep1x1 ==
    /\ pc = "panel_pivot" /\ pivot.status = "ok"
    /\ ~PanelOverflows(kp, pivot, nbProp)
    /\ pivot.nb = 1
    /\ LET sw == PanelSwaps(k, kp, pivot)
           rsw == PanelRowSwaps(k, kp, pivot)
           u == PanelUpdate1(ApplySwaps(A, n, sw, conjugate),
                             ApplyRowSwaps(X, rsw), ApplyRowSwaps(Y, rsw),
                             n, k, kp, conjugate)
       IN  /\ A' = u.A /\ X' = u.X /\ Y' = u.Y
           /\ p' = [p EXCEPT ![k + kp] = PanelFrom(k, pivot)]
           /\ last' = Step("panel", k, "1x1", pivot.nb, sw, rsw, rsw)
    /\ kp' = kp + 1
    /\ pc' = "panel"
    /\ UNCHANGED <<entryVars, bindVars, workerVars, proxyVars, dSub, dSubH, pH, XW, YW, n, conjugate, pivotType, gamma, bsize,
                   k, nbProp, pivot, err, A0, caller>>

PanelStep2x2 ==
    /\ pc = "panel_pivot" /\ pivot.status = "ok"
    /\ ~PanelOverflows(kp, pivot, nbProp)
    /\ pivot.nb # 1
    /\ LET sw == PanelSwaps(k, kp, pivot)
           rsw == PanelRowSwaps(k, kp, pivot)
           u == PanelUpdate2(ApplySwaps(A, n, sw, conjugate),
                             ApplyRowSwaps(X, rsw), ApplyRowSwaps(Y, rsw),
                             n, k, kp, conjugate)
       IN  /\ A' = u.A /\ X' = u.X /\ Y' = u.Y
           /\ dSub' = [dSub EXCEPT ![k + kp] = u.dSub]
           /\ p' = [p EXCEPT ![k + kp] = k + kp, ![k + kp + 1] = PanelFrom(k, pivot)]
           /\ last' = Step("panel", k, "2x2", pivot.nb, sw, rsw, rsw)
    /\ kp' = kp + 2
    /\ pc' = "panel"
    /\ UNCHANGED <<entryVars, bindVars, workerVars, proxyVars, dSubH, pH, XW, YW, n, conjugate, pivotType, gamma, bsize,
                   k, nbProp, pivot, err, A0, caller>>

\* PanelPivoted: the loop ends with k == bsize
PanelLoopExit ==
    /\ pc = "panel" /\ kp >= nbProp
    /\ pc' = "update"
    /\ UNCHANGED <<entryVars, bindVars, workerVars, proxyVars, A, dSub, dSubH, p, pH, X, Y, XW, YW, n, conjugate, pivotType,
                   gamma, bsize, k, nbProp, kp, pivot, err, A0, caller, last>>

\* BlockedPivoted after PanelPivoted: nb = X.Width(), Trrk, k += nb
BlockedTrailingUpdate ==
    /\ pc = "update"
    /\ A' = TrailingUpdate(A, X, Y, n, k, XW)
    /\ k' = k + XW
    /\ pc' = "blocked"
    /\ UNCHANGED <<entryVars, bindVars, workerVars, proxyVars, dSub, dSubH, p, pH, X, Y, XW, YW, n, conjugate, pivotType, gamma,
                   bsize, nbProp, kp, pivot, err, A0, caller, last>>

UnblockedReturn ==
    /\ pc = "unblocked" /\ k >= n
    /\ pc' = "done"
    /\ UNCHANGED <<entryVars, bindVars, workerVars, proxyVars, A, dSub, dSubH, p, pH, X, Y, XW, YW, n, conjugate, pivotType,
                   gamma, bsize, k, nbProp, kp, pivot, err, A0, caller, last>>

\* UnblockedPivoted, pivotType == BUNCH_KAUFMAN_C
UnblockedBunchKaufmanC ==
    /\ pc = "unblocked" /\ k < n /\ pivotType = "BUNCH_KAUFMAN_C"
    /\ LET diagMax == DiagonalMax(ViewBR(A, k, n), n - k)
           sw == << <<k, k + diagMax.index>> >>
       IN  /\ A' = ApplySwaps(A, n, sw, conjugate)
           /\ last' = Step("unblocked", 0, "logic", 0, sw, <<>>, <<>>)
    /\ err' = "logic"
    /\ pc' = "done"
    /\ UNCHANGED <<entryVars, bindVars, workerVars, proxyVars, dSub, dSubH, p, pH, X, Y, XW, YW, n, conjugate, pivotType, gamma,
                   bsize, k, nbProp, kp, pivot, A0, caller>>

\* UnblockedPivoted: const LDLPivot pivot = ChoosePivot( ABR, pivotType, gamma )
UnblockedChoose ==
    /\ pc = "unblocked" /\ k < n /\ pivotType # "BUNCH_KAUFMAN_C"
    /\ pivot' = ChoosePivot(ViewBR(A, k, n), n - k, pivotType, gamma)
    /\ pc' = "unblocked_pivot"
    /\ UNCHANGED <<entryVars, bindVars, workerVars, proxyVars, A, dSub, dSubH, p, pH, X, Y, XW, YW, n, conjugate, pivotType,
                   gamma, bsize, k, nbProp, kp, err, A0, caller, last>>

UnblockedFail ==
    /\ pc = "unblocked_pivot" /\ pivot.status # "ok"
    /\ err' = pivot.status
    /\ pc' = "done"
    /\ last' = Step("unblocked", 0, pivot.status, 0, <<>>, <<>>, <<>>)
    /\ UNCHANGED <<entryVars, bindVars, workerVars, proxyVars, A, dSub, dSubH, p, pH, X, Y, XW, YW, n, conjugate, pivotType,
                   gamma, bsize, k, nbProp, kp, pivot, A0, caller>>

UnblockedStep1x1 ==
    /\ pc = "unblocked_pivot" /\ pivot.status = "ok"
    /\ pivot.nb = 1
    /\ LET sw == UnblockedSwaps(k, pivot)
       IN  /\ A' = UnblockedUpdate1(ApplySwaps(A, n, sw, conjugate), n, k, conjugate)
           /\ p' = [p EXCEPT ![k] = k + pivot.from[1]]
           /\ last' = Step("unblocked", 0, "1x1", pivot.nb, sw, <<>>, <<>>)
    /\ k' = k + 1
    /\ pc' = "unblocked"
    /\ UNCHANGED <<entryVars, bindVars, workerVars, proxyVars, dSub, dSubH, pH, X, Y, XW, YW, n, conjugate, pivotType, gamma,
                   bsize, nbProp, kp, pivot, err, A0, caller>>

UnblockedStep2x2 ==
    /\ pc = "unblocked_pivot" /\ pivot.status = "ok"
    /\ pivot.nb # 1
    /\ LET sw == UnblockedSwaps(k, pivot)
           u == UnblockedUpdate2(ApplySwaps(A, n, sw, conjugate), n, k, conjugate)
       IN  /\ A' = u.A
           /\ dSub' = [dSub EXCEPT ![k] = u.dSub]
           /\ p' = [p EXCEPT ![k] = k + pivot.from[1], ![k + 1] = k + pivot.from[2]]
           /\ last' = Step("unblocked", 0, "2x2", pivot.nb, sw, <<>>, <<>>)
    /\ k' = k + 2
    /\ pc' = "unblocked"
    /\ UNCHANGED <<entryVars, bindVars, workerVars, proxyVars, dSubH, pH, X, Y, XW, YW, n, conjugate, pivotType, gamma,
                   bsize, nbProp, kp, pivot, err, A0, caller>>

NextLDL ==
    \/ CallPivoted \/ PivotedSwitch \/ CallBlockedPivoted \/ CallUnblockedPivoted
    \/ BlockedOpenPanel \/ BlockedReturn
    \/ PanelBunchKaufmanC \/ PanelChoose \/ PanelFail \/ PanelOverflow
    \/ PanelStep1x1 \/ PanelStep2x2 \/ PanelLoopExit
    \/ BlockedTrailingUpdate
    \/ UnblockedReturn \/ UnblockedBunchKaufmanC \/ UnblockedChoose \/ UnblockedFail
    \/ UnblockedStep1x1 \/ UnblockedStep2x2

Spec == InitLDL /\ [][NextLDL]_vars

\* ------------------------------------------------------------------------
\* Distributed matrices: the process grid, ownership and Copy
\* ------------------------------------------------------------------------
GridHeight == 2
GridWidth == 2
MaxDim == 2

Procs == (0..(GridHeight - 1)) \X (0..(GridWidth - 1))
GridSize == GridHeight * GridWidth
VCRank(q) == q[1] + q[2] * GridHeight
VRRank(q) == q[2] + q[1] * GridWidth

\* the grid of the sources; it is not the default grid
Grids == {"grid1"}

ElementTypes == {"float", "double"}

\* the distribution pairs ElDistMatrixCreateSpecific builds
DistPairs ==
    { <<"CIRC", "CIRC">>, <<"MC", "MR">>, <<"MC", "STAR">>, <<"MD", "STAR">>,
      <<"MR", "MC">>, <<"MR", "STAR">>, <<"STAR", "MC">>, <<"STAR", "MD">>,
      <<"STAR", "MR">>, <<"STAR", "STAR">>, <<"STAR", "VC">>, <<"STAR", "VR">>,
      <<"VC", "STAR">>, <<"VR", "STAR">> }

\* the pairs block-wrapped sources are tried in
BlockPairs == { <<"MC", "MR">> }

\* the template arguments (U,V) proxies are built with here; (MC,MR) is the default
ProxyPairs == { <<"MC", "MR">>, <<"STAR", "STAR">>, <<"VC", "STAR">> }

\* number of processes a distribution deals indices to
Stride(dist) ==
    CASE dist = "MC" -> GridHeight
      [] dist = "MR" -> GridWidth
      [] dist \in {"VC", "VR"} -> GridSize
      [] dist = "MD" -> (GridHeight * GridWidth) \div GCD(GridHeight, GridWidth)
      [] OTHER -> 1

\* alignments tried: the first and the last process of the distribution
Aligns(dist) == {0, Stride(dist) - 1}

Roots == {0, GridSize - 1}

\* rows (columns) per block: 1 when element-wise; a block-wrapped matrix of
\* this size lies within one block
BlockDim(wrap) == IF wrap = "BLOCK" THEN MaxDim ELSE 1

\* process q holds row (column) i of a matrix dealt out by dist
OwnsIndex(dist, align, root, blk, q, i) ==
    LET b == i \div blk
    IN  CASE dist = "MC" -> q[1] = (align + b) % GridHeight
          [] dist = "MR" -> q[2] = (align + b) % GridWidth
          [] dist = "VC" -> VCRank(q) = (align + b) % GridSize
          [] dist = "VR" -> VRRank(q) = (align + b) % GridSize
          [] dist = "MD" -> q = <<(align + b) % GridHeight, (align + b) % GridWidth>>
          [] dist = "CIRC" -> VCRank(q) = root
          [] OTHER -> TRUE

Owns(M, q, i, j) ==
    /\ OwnsIndex(M.colDist, M.colAlign, M.root, BlockDim(M.wrap), q, i)
    /\ OwnsIndex(M.rowDist, M.rowAlign, M.root, BlockDim(M.wrap), q, j)

Indices(M) == (0..(M.height - 1)) \X (0..(M.width - 1))

\* the local buffers of M when its global entries are g
WithEntries(M, g) ==
    [M EXCEPT !.loc = [q \in Procs |->
        [ij \in {x \in Indices(M) : Owns(M, q, x[1], x[2])} |-> g[ij]]]]

\* Get( i, j ): the value held by an owner
GlobalGet(M, i, j) ==
    LET q == CHOOSE r \in Procs : Owns(M, r, i, j) IN M.loc[q][<<i, j>>]

Entries(M) == [ij \in Indices(M) |-> GlobalGet(M, ij[1], ij[2])]

\* Set( i, j, v ): every owner stores v
SetEntry(M, i, j, v) ==
    [M EXCEPT !.loc = [q \in Procs |->
        IF <<i, j>> \in DOMAIN M.loc[q] THEN [M.loc[q] EXCEPT ![<<i, j>>] = v]
        ELSE M.loc[q]]]

\* integers up to 2^24 are floats; between 2^24 and 2^25 every second one is
FloatExact == 2 ^ 24

\* conversion of a real value of type S to type T: double to float rounds to
\* the nearest float, ties to the even mantissa
Cast(S, T, v) ==
    IF S = "double" /\ T = "float" /\ v > FloatExact
    THEN CASE v % 4 = 1 -> v - 1
           [] v % 4 = 3 -> v + 1
           [] OTHER -> v
    ELSE v

\* Copy( A, B ): B takes the size of A and, at every global index, its owners
\* in B receive the value held by the owner in A
Copy(Am, Bm) ==
    WithEntries([Bm EXCEPT !.height = Am.height, !.width = Am.width],
                [ij \in Indices(Am) |-> Cast(Am.type, Bm.type, GlobalGet(Am, ij[1], ij[2]))])

\* Resize( h, w ): the entries of the new buffer are whatever the memory held
Resize(M, h, w, junk) ==
    WithEntries([M EXCEPT !.height = h, !.width = w],
                [ij \in (0..(h - 1)) \X (0..(w - 1)) |-> junk])

\* DistMatrix<T,U,V>( grid ): zero size, zero alignments, root 0
NewDistMatrix(T, U, V, grid) ==
    [type |-> T, colDist |-> U, rowDist |-> V, wrap |-> "ELEMENT", grid |-> grid,
     colAlign |-> 0, rowAlign |-> 0, root |-> 0, height |-> 0, width |-> 0,
     loc |-> [q \in Procs |-> <<>>]]

\* entries of the sources: all different; the second set holds no float
SmallEntries(h, w) == [ij \in (0..(h - 1)) \X (0..(w - 1)) |-> 1 + ij[1] * w + ij[2]]
WideEntries(h, w) ==
    [ij \in (0..(h - 1)) \X (0..(w - 1)) |-> FloatExact + 1 + 2 * (ij[1] * w + ij[2])]

SourceEntries(T, h, w) ==
    IF T = "double" THEN {SmallEntries(h, w), WideEntries(h, w)} ELSE {SmallEntries(h, w)}

\* values a buffer that was never written may hold, and the value written
\* through Get()
Junk == {0, 99}
WrittenValues == {7}

\* ------------------------------------------------------------------------
\* The distributed proxies
\* ------------------------------------------------------------------------
\* the control objects tried for a proxy with template arguments (U,V)
Ctrls(U, V) ==
    { [colConstrain |-> cc, rowConstrain |-> rc, rootConstrain |-> tc,
       colAlign |-> IF cc THEN Stride(U) - 1 ELSE 0,
       rowAlign |-> IF rc THEN Stride(V) - 1 ELSE 0,
       root |-> IF tc THEN GridSize - 1 ELSE 0] :
      cc \in BOOLEAN, rc \in BOOLEAN, tc \in BOOLEAN }

\* a proxy whose pointer prox_ is a fresh matrix, never the source
ProxyAlwaysCopies(Am, T, U, V, c) == FALSE

\* the test of the three constructors: prox_ is the source itself
ProxyAliases(Am, T, U, V, c) ==
    /\ Am.type = T
    /\ Am.colDist = U /\ Am.rowDist = V /\ Am.wrap = "ELEMENT"
    /\ ~(c.colConstrain /\ Am.colAlign # c.colAlign)
    /\ ~(c.rowConstrain /\ Am.rowAlign # c.rowAlign)
    /\ ~(c.rootConstrain /\ Am.root # c.root)

\* a proxy matrix built without looking at the control object
FreshProxyUnaligned(Am, T, U, V, c) == NewDistMatrix(T, U, V, Am.grid)

\* new DistMatrix<T,U,V>(A.Grid()), then SetRoot, AlignCols, AlignRows for the
\* constraints that are set
FreshProxy(Am, T, U, V, c) ==
    LET P0 == NewDistMatrix(T, U, V, Am.grid)
        P1 == IF c.rootConstrain THEN [P0 EXCEPT !.root = c.root] ELSE P0
        P2 == IF c.colConstrain THEN [P1 EXCEPT !.colAlign = c.colAlign] ELSE P1
    IN  IF c.rowConstrain THEN [P2 EXCEPT !.rowAlign = c.rowAlign] ELSE P2

FreshEvents(c) ==
    <<"new">> \o (IF c.rootConstrain THEN <<"SetRoot">> ELSE <<>>)
              \o (IF c.colConstrain THEN <<"AlignCols">> ELSE <<>>)
              \o (IF c.rowConstrain THEN <<"AlignRows">> ELSE <<>>)

\* a read-write proxy that only sizes its matrix, as the write proxy does
ReadWriteSizeOnly(Am, P, junk) == Resize(P, Am.height, Am.width, junk)

\* last statement of the constructors: what fills the fresh matrix
ReadInit(Am, P) == Copy(Am, P)
WriteInit(Am, P, junk) == Resize(P, Am.height, Am.width, junk)
ReadWriteInit(Am, P, junk) == Copy(Am, P)

\* a destructor that copies back whatever is propagating
WritesBackAlways(needWriteCopy, uncaught) == needWriteCopy

\* a destructor that copies back exactly when an error is propagating
WritesBackOnUnwind(needWriteCopy, uncaught) == needWriteCopy /\ uncaught

\* the test of ~DistMatrixWriteProxy and ~DistMatrixReadWriteProxy
WritesBack(needWriteCopy, uncaught) == needWriteCopy /\ ~uncaught

Proxy(kind, T, U, V, locked, alias, needWriteCopy) ==
    [kind |-> kind, T |-> T, U |-> U, V |-> V, locked |-> locked, alias |-> alias,
     needDelete |-> ~alias, needWriteCopy |-> needWriteCopy]

Source(T, UV, w, g, ca, ra, rt, e) ==
    WithEntries([type |-> T, colDist |-> UV[1], rowDist |-> UV[2], wrap |-> w,
                 grid |-> g, colAlign |-> ca, rowAlign |-> ra, root |-> rt,
                 height |-> MaxDim, width |-> MaxDim,
                 loc |-> [q \in Procs |-> <<>>]], e)

SourceMatrices ==
    UNION { UNION { { Source(T, UV, w, g, ca, ra, rt, e) :
                        w \in {"ELEMENT"} \cup (IF UV \in BlockPairs THEN {"BLOCK"} ELSE {}),
                        g \in Grids,
                        ca \in Aligns(UV[1]), ra \in Aligns(UV[2]), rt \in Roots,
                        e \in SourceEntries(T, MaxDim, MaxDim) } :
                    UV \in DistPairs } :
            T \in ElementTypes }

InitProxy ==
    /\ orig \in SourceMatrices
    /\ orig0 = Entries(orig)
    /\ fresh = NoMatrix /\ back = NoMatrix
    /\ proxy = NoProxy
    /\ ctrl = NoCtrl
    /\ unwinding = FALSE
    /\ events = <<>>
    /\ written = NoWrite
    /\ ppc = "start"
    \* no factorization is running
    /\ n = 0 /\ conjugate = FALSE /\ pivotType = "BUNCH_KAUFMAN_A" /\ gamma = RZero
    /\ A0 = <<>> /\ A = <<>> /\ caller = "user"
    /\ dSub = <<>> /\ dSubH = 0
    /\ p = <<>> /\ pH = 0
    /\ X = <<>> /\ Y = <<>> /\ XW = 0 /\ YW = 0
    /\ bsize = 0 /\ k = 0 /\ nbProp = 0 /\ kp = 0
    /\ pivot = NoPivot
    /\ pc = "idle"
    /\ err = "none"
    /\ last = NoStep
    \* no caller of the C interface, no grid of workers
    /\ handle = NoMatrix /\ outHandle = NoMatrix /\ valOut = <<>>
    /\ retCode = "none" /\ lastCall = NoCall /\ bpc = "idle"
    /\ wpivot = <<>> /\ wpc = <<>> /\ wops = <<>>
    /\ call = NoCall /\ operands = <<>> /\ operands0 = <<>> /\ epc = "idle" /\ eerr = "none"

\* DistMatrixReadProxy<S,T,U,V>( A, ctrl ), for a const or a mutable A
ConstructReadProxy ==
    /\ ppc = "start"
    /\ \E T \in ElementTypes, UV \in ProxyPairs, lk \in BOOLEAN :
       \E c \in Ctrls(UV[1], UV[2]) :
          /\ ctrl' = c
          /\ IF ProxyAliases(orig, T, UV[1], UV[2], c)
             THEN /\ proxy' = Proxy("read", T, UV[1], UV[2], lk, TRUE, FALSE)
                  /\ fresh' = fresh
                  /\ events' = events
             ELSE /\ proxy' = Proxy("read", T, UV[1], UV[2], lk, FALSE, FALSE)
                  /\ fresh' = ReadInit(orig, FreshProxy(orig, T, UV[1], UV[2], c))
                  /\ events' = FreshEvents(c) \o <<"CopyIn">>
    /\ ppc' = "live"
    /\ UNCHANGED <<entryVars, bindVars, workerVars, ldlVars, orig, back, unwinding, written, orig0>>

\* DistMatrixWriteProxy<S,T,U,V>( A, ctrl )
ConstructWriteProxy ==
    /\ ppc = "start"
    /\ \E T \in ElementTypes, UV \in ProxyPairs :
       \E c \in Ctrls(UV[1], UV[2]) :
          /\ ctrl' = c
          /\ IF ProxyAliases(orig, T, UV[1], UV[2], c)
             THEN /\ proxy' = Proxy("write", T, UV[1], UV[2], FALSE, TRUE, FALSE)
                  /\ fresh' = fresh
                  /\ events' = events
             ELSE /\ proxy' = Proxy("write", T, UV[1], UV[2], FALSE, FALSE, TRUE)
                  /\ \E junk \in Junk :
                        fresh' = WriteInit(orig, FreshProxy(orig, T, UV[1], UV[2], c), junk)
                  /\ events' = FreshEvents(c) \o <<"Resize">>
    /\ ppc' = "live"
    /\ UNCHANGED <<entryVars, bindVars, workerVars, ldlVars, orig, back, unwinding, written, orig0>>

\* DistMatrixReadWriteProxy<S,T,U,V>( A, ctrl )
ConstructReadWriteProxy ==
    /\ ppc = "start"
    /\ \E T \in ElementTypes, UV \in ProxyPairs :
       \E c \in Ctrls(UV[1], UV[2]) :
          /\ ctrl' = c
          /\ IF ProxyAliases(orig, T, UV[1], UV[2], c)
             THEN /\ proxy' = Proxy("readwrite", T, UV[1], UV[2], FALSE, TRUE, FALSE)
                  /\ fresh' = fresh
                  /\ events' = events
             ELSE /\ proxy' = Proxy("readwrite", T, UV[1], UV[2], FALSE, FALSE, TRUE)
                  /\ \E junk \in Junk :
                        fresh' = ReadWriteInit(orig, FreshProxy(orig, T, UV[1], UV[2], c), junk)
                  /\ events' = FreshEvents(c) \o <<"CopyIn">>
    /\ ppc' = "live"
    /\ UNCHANGED <<entryVars, bindVars, workerVars, ldlVars, orig, back, unwinding, written, orig0>>

\* the matrix prox_ points to
Target == IF proxy.alias THEN orig ELSE fresh

\* Get().Set( i, j, v ) on a proxy that hands out a mutable matrix
GetAndSet ==
    /\ ppc = "live" /\ ~unwinding /\ written = NoWrite
    /\ ~proxy.locked
    /\ \E ij \in {<<Target.height - 1, Target.width - 1>>}, v \in WrittenValues :
          /\ written' = [i |-> ij[1], j |-> ij[2], v |-> v]
          /\ IF proxy.alias
             THEN orig' = SetEntry(orig, ij[1], ij[2], v) /\ fresh' = fresh
             ELSE fresh' = SetEntry(fresh, ij[1], ij[2], v) /\ orig' = orig
    /\ UNCHANGED <<entryVars, bindVars, workerVars, ldlVars, back, proxy, ctrl, unwinding, events, orig0, ppc>>

\* Get() on a read proxy built from a const source: LogicError
GetLocked ==
    /\ ppc = "live" /\ ~unwinding
    /\ proxy.locked
    /\ unwinding' = TRUE
    /\ UNCHANGED <<entryVars, bindVars, workerVars, ldlVars, orig, fresh, back, proxy, ctrl, events, written, orig0, ppc>>

\* the code using the proxy throws
Throw ==
    /\ ppc = "live" /\ ~unwinding
    /\ unwinding' = TRUE
    /\ UNCHANGED <<entryVars, bindVars, workerVars, ldlVars, orig, fresh, back, proxy, ctrl, events, written, orig0, ppc>>

\* ~DistMatrixReadProxy
DestroyReadProxy ==
    /\ ppc = "live" /\ proxy.kind = "read"
    /\ IF proxy.needDelete
       THEN fresh' = NoMatrix /\ events' = events \o <<"delete">>
       ELSE fresh' = fresh /\ events' = events
    /\ ppc' = "destroyed"
    /\ UNCHANGED <<entryVars, bindVars, workerVars, ldlVars, orig, back, proxy, ctrl, unwinding, written, orig0>>

\* ~DistMatrixWriteProxy
DestroyWriteProxy ==
    /\ ppc = "live" /\ proxy.kind = "write"
    /\ LET wb == WritesBack(proxy.needWriteCopy, unwinding)
       IN  /\ orig' = IF wb THEN Copy(fresh, orig) ELSE orig
           /\ events' = events \o (IF wb THEN <<"CopyBack">> ELSE <<>>)
                               \o (IF proxy.needDelete THEN <<"delete">> ELSE <<>>)
    /\ fresh' = IF proxy.needDelete THEN NoMatrix ELSE fresh
    /\ ppc' = "destroyed"
    /\ UNCHANGED <<entryVars, bindVars, workerVars, ldlVars, back, proxy, ctrl, unwinding, written, orig0>>

\* ~DistMatrixReadWriteProxy
DestroyReadWriteProxy ==
    /\ ppc = "live" /\ proxy.kind = "readwrite"
    /\ LET wb == WritesBack(proxy.needWriteCopy, unwinding)
       IN  /\ orig' = IF wb THEN Copy(fresh, orig) ELSE orig
           /\ events' = events \o (IF wb THEN <<"CopyBack">> ELSE <<>>)
                               \o (IF proxy.needDelete THEN <<"delete">> ELSE <<>>)
    /\ fresh' = IF proxy.needDelete THEN NoMatrix ELSE fresh
    /\ ppc' = "destroyed"
    /\ UNCHANGED <<entryVars, bindVars, workerVars, ldlVars, back, proxy, ctrl, unwinding, written, orig0>>

\* ElDistMatrixCopy( A, B ) into a matrix B of A's element type
DistMatrixCopy ==
    /\ ppc = "start"
    /\ \E UV \in DistPairs, rt \in Roots :
       \E ca \in Aligns(UV[1]), ra \in Aligns(UV[2]) :
          fresh' = Copy(orig, [NewDistMatrix(orig.type, UV[1], UV[2], orig.grid)
                                 EXCEPT !.colAlign = ca, !.rowAlign = ra, !.root = rt])
    /\ ppc' = "copied"
    /\ UNCHANGED <<entryVars, bindVars, workerVars, ldlVars, orig, back, proxy, ctrl, unwinding, events, written, orig0>>

\* ElDistMatrixCopy( B, A' ) into a matrix A' distributed and aligned as A
DistMatrixCopyBack ==
    /\ ppc = "copied"
    /\ back' = Copy(fresh, [NewDistMatrix(orig.type, orig.colDist, orig.rowDist, orig.grid)
                              EXCEPT !.wrap = orig.wrap, !.colAlign = orig.colAlign,
                                     !.rowAlign = orig.rowAlign, !.root = orig.root])
    /\ ppc' = "returned"
    /\ UNCHANGED <<entryVars, bindVars, workerVars, ldlVars, orig, fresh, proxy, ctrl, unwinding, events, written, orig0>>

NextProxy ==
    \/ ConstructReadProxy \/ ConstructWriteProxy \/ ConstructReadWriteProxy
    \/ GetAndSet \/ GetLocked \/ Throw
    \/ DestroyReadProxy \/ DestroyWriteProxy \/ DestroyReadWriteProxy
    \/ DistMatrixCopy \/ DistMatrixCopyBack

SpecProxy == InitProxy /\ [][NextProxy]_vars

\* ------------------------------------------------------------------------
\* The factors held by a finished call, and the matrices they stand for
\* ------------------------------------------------------------------------
Finished == pc = "done" /\ err = "none"

\* unit lower triangular L: the strictly lower triangle of A
LFactor(i, j) == IF i = j THEN One ELSE IF i > j THEN A[i][j] ELSE Zero

\* quasi-diagonal D: the diagonal of A and the sub-diagonal dSub
DFactor(i, j) ==
    IF i = j THEN A[i][i]
    ELSE IF i = j + 1 THEN dSub[j]
    ELSE IF j = i + 1 THEN C(conjugate, dSub[i])
    ELSE Zero

RECURSIVE SumTo(_, _)
SumTo(f, m) == IF m < 0 THEN Zero ELSE Add(SumTo(f, m - 1), f[m])

\* entry (i, j) of L D L^T (L D L^H when conjugate)
LDLEntry(i, j) ==
    SumTo([a \in 0..(n - 1) |->
             SumTo([b \in 0..(n - 1) |->
                      Mul(Mul(LFactor(i, a), DFactor(a, b)), C(conjugate, LFactor(j, b)))],
                   n - 1)],
          n - 1)

\* the swaps p stands for: row i with row p[i], for i = 0, 1, ..., n-1
PermSwaps == [i \in 1..n |-> <<i - 1, p[i - 1]>>]

PermWritten == pH = n /\ \A i \in 0..(n - 1) : p[i] \in 0..(n - 1)

\* P A0 P^T, lower triangle
PermutedInput == ApplySwaps(A0, n, PermSwaps, conjugate)

FactorsReproduceInput ==
    /\ PermWritten
    /\ dSubH = n - 1
    /\ \A i \in 0..(n - 1) : \A j \in 0..i : LDLEntry(i, j) = PermutedInput[i][j]

\* C1: on every input on which no pivot search raises, the call leaves
\* L, D and p with P A P^T = L D L^T (L^H when conjugate)
C1_Factorization == (Finished /\ n >= 1) => FactorsReproduceInput

\* C2: every call of PanelPivoted hands back at least one completed column,
\* so the offset of BlockedPivoted grows in every iteration and ends at n
C2_PanelCompletesColumn ==
    /\ (pc = "update" => (XW >= 1 /\ k + XW <= n))
    /\ (pc = "blocked" => k <= n)

\* C3: for n = 0 every entry point returns at once, without error, with p
\* and dSub of height 0
C3_EmptyInput ==
    (n = 0 /\ pc \notin {"start", "pivoted"}) =>
        (pc = "done" /\ err = "none" /\ pH = 0 /\ dSubH = 0)

\* C4: a panel pivot has 1 or 2 columns; a 2x2 pivot pairs column k with a
\* row r >= k+1; a step that fits does one symmetric swap of A and one row
\* swap of X and of Y, all on the same pair of rows
C4_PanelPivotAndSwap ==
    /\ (pc = "panel_pivot" /\ pivot.status = "ok") =>
          /\ pivot.nb \in {1, 2}
          /\ pivot.nb = 2 => (pivot.from[1] = kp /\ pivot.from[2] >= kp + 1)
    /\ (last.in = "panel" /\ last.kind \in {"1x1", "2x2"}) =>
          /\ Len(last.swaps) = 1
          /\ Len(last.swapsX) = 1
          /\ Len(last.swapsY) = 1
          /\ last.swapsX = last.swapsY
          /\ \A c \in 1..2 : last.swapsX[1][c] = last.swaps[1][c] - last.off

C4_Witness ==
    /\ last.in = "panel" /\ last.kind = "2x2"
    /\ last.swaps[1][1] # last.swaps[1][2]

Matrix5 == [i \in 0..0 |-> [j \in 0..0 |-> Re(5)]]

Matrix01 == [i \in 0..1 |-> [j \in 0..1 |-> IF i = j THEN Zero ELSE One]]

\* C5: under Bunch-Kaufman A, [[5]] gives p = [0], one 1x1 pivot and D = [[5]];
\* [[0,1],[1,0]] gives one 2x2 pivot at {0,1}, p = [0,1], dSub[0] = 1 and
\* A(1,0) = 0, so that L = I and D = [[0,1],[1,0]]
C5_Scenarios ==
    (Finished /\ pivotType = "BUNCH_KAUFMAN_A") =>
        /\ A0 = Matrix5 =>
              /\ pH = 1 /\ p[0] = 0
              /\ last.kind = "1x1" /\ last.nb = 1
              /\ LFactor(0, 0) = One /\ DFactor(0, 0) = Re(5)
        /\ A0 = Matrix01 =>
              /\ pH = 2 /\ p[0] = 0 /\ p[1] = 1
              /\ last.kind = "2x2" /\ last.nb = 2
              /\ dSubH = 1 /\ dSub[0] = One
              /\ A[1][0] = Zero
              /\ \A i \in 0..1 : \A j \in 0..1 :
                    /\ LFactor(i, j) = (IF i = j THEN One ELSE Zero)
                    /\ DFactor(i, j) = Matrix01[i][j]

C5_Witness ==
    /\ Finished /\ pivotType = "BUNCH_KAUFMAN_A"
    /\ A0 = Matrix01
    /\ last.in = "panel"

\* the trailing block from row and column off on is zero
TrailingZero(off) ==
    \A i \in off..(n - 1) : \A j \in off..i : A[i][j] = Zero

\* C10: a pivot search that finds the diagonal and the off-diagonal maximum
\* both zero raises the singular-matrix error and returns no pivot
C10_SingularRaised ==
    /\ (pc = "unblocked_pivot" /\ TrailingZero(k)) => pivot.status = "singular"
    /\ (pc = "panel_pivot" /\ kp = 0 /\ TrailingZero(k) /\ pivot.status # "logic")
          => pivot.status = "singular"

\* ------------------------------------------------------------------------
\* Claims about the proxies and about Copy
\* ------------------------------------------------------------------------
CountOf(seq, e) == Cardinality({i \in DOMAIN seq : seq[i] = e})

Built == ppc \in {"live", "destroyed"}

\* the source has the proxy's element type and distribution pair and meets
\* every constraint of the control object that is set
SourceMatches ==
    /\ orig.type = proxy.T
    /\ orig.colDist = proxy.U /\ orig.rowDist = proxy.V
    /\ ctrl.colConstrain => orig.colAlign = ctrl.colAlign
    /\ ctrl.rowConstrain => orig.rowAlign = ctrl.rowAlign
    /\ ctrl.rootConstrain => orig.root = ctrl.root

\* the proxy is the source: nothing allocated, copied or deleted, and a
\* write through Get() is read back from the source
ProxyIsSource ==
    /\ proxy.alias
    /\ fresh = NoMatrix
    /\ events = <<>>
    /\ written # NoWrite => GlobalGet(orig, written.i, written.j) = written.v

\* C6 as stated: a source of the proxy's type and distribution pair that
\* meets the active constraints is aliased
C6_AliasWhenMatching == (Built /\ SourceMatches) => ProxyIsSource

\* C6: a source of the proxy's type and distribution pair that meets the
\* active constraints and is element-wise wrapped is aliased: no allocation,
\* no Copy, no delete, writes through Get() visible in the source
C6_AliasWhenMatchingElementWrap ==
    (Built /\ SourceMatches /\ orig.wrap = "ELEMENT") => ProxyIsSource

C6_Witness ==
    /\ ppc = "destroyed" /\ SourceMatches /\ orig.wrap = "ELEMENT"
    /\ proxy.kind = "readwrite"
    /\ ctrl.colConstrain /\ ctrl.rootConstrain
    /\ written # NoWrite

\* C7: a proxy that is not the source holds a fresh (U,V) matrix of the
\* proxy's type on the source's grid, with root and alignments taken from the
\* control object exactly where it constrains them; read and read-write
\* proxies did one Copy from the source, the write proxy one Resize and no Copy
C7_FreshProxy ==
    (ppc = "live" /\ ~proxy.alias) =>
        /\ CountOf(events, "new") = 1
        /\ CountOf(events, "SetRoot") = (IF ctrl.rootConstrain THEN 1 ELSE 0)
        /\ CountOf(events, "AlignCols") = (IF ctrl.colConstrain THEN 1 ELSE 0)
        /\ CountOf(events, "AlignRows") = (IF ctrl.rowConstrain THEN 1 ELSE 0)
        /\ CountOf(events, "CopyIn") = (IF proxy.kind = "write" THEN 0 ELSE 1)
        /\ CountOf(events, "Resize") = (IF proxy.kind = "write" THEN 1 ELSE 0)
        /\ events[Len(events)] \in {"CopyIn", "Resize"}
        /\ fresh.type = proxy.T /\ fresh.colDist = proxy.U /\ fresh.rowDist = proxy.V
        /\ fresh.grid = orig.grid
        /\ fresh.root = (IF ctrl.rootConstrain THEN ctrl.root ELSE 0)
        /\ fresh.colAlign = (IF ctrl.colConstrain THEN ctrl.colAlign ELSE 0)
        /\ fresh.rowAlign = (IF ctrl.rowConstrain THEN ctrl.rowAlign ELSE 0)
        /\ fresh.height = orig.height /\ fresh.width = orig.width
        /\ (proxy.kind # "write" /\ written = NoWrite) =>
              \A ij \in Indices(orig) :
                  GlobalGet(fresh, ij[1], ij[2]) = Cast(orig.type, proxy.T, orig0[ij])

C7_Witness ==
    /\ ppc = "live" /\ ~proxy.alias
    /\ proxy.kind = "write"
    /\ ctrl.rootConstrain /\ ctrl.colConstrain /\ ~ctrl.rowConstrain
    /\ ctrl.colAlign # 0

\* C8: the destructor of a write or read-write proxy that holds a copy does
\* one Copy back to the source unless an error is propagating, and then none;
\* a read proxy never copies back; an allocated matrix is deleted once
C8_Destruction ==
    ppc = "destroyed" =>
        /\ CountOf(events, "CopyBack") =
              (IF proxy.kind \in {"write", "readwrite"} /\ ~proxy.alias /\ ~unwinding
               THEN 1 ELSE 0)
        /\ CountOf(events, "delete") = CountOf(events, "new")
        /\ CountOf(events, "delete") = (IF proxy.alias THEN 0 ELSE 1)
        /\ fresh = NoMatrix
        /\ (~proxy.alias /\ (proxy.kind = "read" \/ unwinding)) => Entries(orig) = orig0
        /\ (~proxy.alias /\ proxy.kind # "read" /\ ~unwinding /\ written # NoWrite) =>
              GlobalGet(orig, written.i, written.j) = Cast(proxy.T, orig.type, written.v)

C8_Witness ==
    /\ ppc = "destroyed" /\ ~proxy.alias
    /\ proxy.kind = "write" /\ unwinding
    /\ written # NoWrite

\* every value of type S is a value of type T
Widens(S, T) == S = T \/ (S = "float" /\ T = "double")

RoundTripped ==
    /\ back.colDist = orig.colDist /\ back.rowDist = orig.rowDist
    /\ back.colAlign = orig.colAlign /\ back.rowAlign = orig.rowAlign
    /\ back.root = orig.root
    /\ Entries(back) = Entries(orig)

UntouchedReadWrite ==
    /\ ppc = "destroyed" /\ proxy.kind = "readwrite" /\ ~proxy.alias
    /\ ~unwinding /\ written = NoWrite

MaxInds == 2

Dists == {"CIRC", "MC", "MD", "MR", "STAR", "VC", "VR"}

Suffixes == {"s", "d", "c", "z"}

\* the element type the functions with a suffix are written for
SuffixType(sfx) ==
    CASE sfx = "s" -> "float"
      [] sfx = "d" -> "double"
      [] sfx = "c" -> "Complex<float>"
      [] sfx = "z" -> "Complex<double>"

IsComplex(T) == T \in {"Complex<float>", "Complex<double>"}

\* the exception classes a wrapped operation raises, with their base classes
Exceptions == {"bad_alloc", "logic_error", "length_error", "runtime_error", "exception"}

Bases(e) ==
    CASE e = "bad_alloc" -> {"bad_alloc", "exception"}
      [] e = "logic_error" -> {"logic_error", "exception"}
      [] e = "length_error" -> {"length_error", "logic_error", "exception"}
      [] e = "runtime_error" -> {"runtime_error", "exception"}
      [] e = "exception" -> {"exception"}
      [] OTHER -> {}

\* the handlers of the CATCH macro, in the order they are written
Handlers ==
    << <<"bad_alloc", "EL_ALLOC_ERROR">>, <<"logic_error", "EL_LOGIC_ERROR">>,
       <<"runtime_error", "EL_RUNTIME_ERROR">>, <<"exception", "EL_ERROR">> >>

\* try { ... } with a handler list, then return EL_SUCCESS: the first handler
\* whose class is a base of what was raised returns its code
CatchWith(hs, e) ==
    LET match == {i \in DOMAIN hs : hs[i][1] \in Bases(e)}
    IN  IF e = "none" THEN "EL_SUCCESS"
        ELSE hs[CHOOSE i \in match : \A m \in match : i <= m][2]

\* the handlers with the catch of std::exception written first
CATCHGeneralFirst(e) ==
    CatchWith(<<Handlers[4], Handlers[1], Handlers[2], Handlers[3]>>, e)

CATCH(e) == CatchWith(Handlers, e)

\* a constructor with a branch for every pair
CreatesAnyPair(U, V) == TRUE

\* the table of ElDistMatrixCreateSpecific: the pairs it has a branch for
CreatesPair(U, V) == <<U, V>> \in DistPairs

\* a table with an entry for every pair CreateSpecific builds
DiagonalPairsOfAll ==
    [uv \in DistPairs |->
        IF uv[1] = "STAR" THEN <<uv[2], "STAR">>
        ELSE IF uv = <<"CIRC", "CIRC">> THEN uv
        ELSE IF uv[2] = "STAR" THEN uv
        ELSE <<"MD", "STAR">>]

\* the table of ElDistMatrixGetDiagonal: source pair to diagonal pair
DiagonalPairs ==
    [uv \in { <<"CIRC", "CIRC">>, <<"MC", "MR">>, <<"MC", "STAR">>, <<"MD", "STAR">>,
              <<"STAR", "MC">>, <<"STAR", "MD">>, <<"STAR", "MR">>, <<"STAR", "STAR">>,
              <<"STAR", "VC">>, <<"STAR", "VR">>, <<"VC", "STAR">>, <<"VR", "STAR">> } |->
        CASE uv = <<"CIRC", "CIRC">> -> <<"CIRC", "CIRC">>
          [] uv = <<"MC", "MR">> -> <<"MD", "STAR">>
          [] uv = <<"MC", "STAR">> -> <<"MC", "STAR">>
          [] uv = <<"MD", "STAR">> -> <<"MD", "STAR">>
          [] uv = <<"STAR", "MC">> -> <<"MC", "STAR">>
          [] uv = <<"STAR", "MD">> -> <<"MD", "STAR">>
          [] uv = <<"STAR", "MR">> -> <<"MR", "STAR">>
          [] uv = <<"STAR", "STAR">> -> <<"STAR", "STAR">>
          [] uv = <<"STAR", "VC">> -> <<"VC", "STAR">>
          [] uv = <<"STAR", "VR">> -> <<"VR", "STAR">>
          [] uv = <<"VC", "STAR">> -> <<"VC", "STAR">>
          [] uv = <<"VR", "STAR">> -> <<"VR", "STAR">>]

\* DiagonalLength( height, width, offset )
DiagonalLength(h, w, offset) ==
    IF offset >= 0
    THEN (IF w - offset > 0 THEN Min(h, w - offset) ELSE 0)
    ELSE (IF h + offset > 0 THEN Min(h + offset, w) ELSE 0)

\* A.GetDiagonal( d, offset ): d is DiagonalLength x 1 and holds the entries
\* of the diagonal
GetDiagonal(M, D, offset) ==
    LET len == DiagonalLength(M.height, M.width, offset)
        iOff == IF offset < 0 THEN 0 - offset ELSE 0
        jOff == IF offset > 0 THEN offset ELSE 0
    IN  WithEntries([D EXCEPT !.height = len, !.width = 1],
                    [ij \in (0..(len - 1)) \X {0} |->
                        GlobalGet(M, ij[1] + iOff, ij[1] + jOff)])

\* A.GetSubmatrix( rowInds, colInds, ASub )
GetSubmatrix(M, rowInds, colInds, S) ==
    WithEntries([S EXCEPT !.height = Len(rowInds), !.width = Len(colInds)],
                [ab \in (0..(Len(rowInds) - 1)) \X (0..(Len(colInds) - 1)) |->
                    GlobalGet(M, rowInds[ab[1] + 1], colInds[ab[2] + 1])])

\* index lists of at most MaxInds indices below m
IndexLists(m) == UNION { [1..len -> 0..(m - 1)] : len \in 0..MaxInds }

\* values of the element types: a real value is an integer, a complex value a
\* pair of integers
CellValue(T, i, j) == IF IsComplex(T) THEN <<1 + 2 * i + j, 5 + 2 * i + j>> ELSE 1 + 2 * i + j
JunkValues(T) == IF IsComplex(T) THEN {<<0, 0>>, <<99, 98>>} ELSE {0, 99}
RealPartOf(v) == v[1]
ImagPartOf(v) == v[2]

\* the RCADM_ macro an accessor applies to its handle
RCADM(fn, sfx) == IF fn \in {"GetRealPart", "GetImagPart"} /\ sfx = "z" THEN "c" ELSE sfx

\* every accessor casting its handle to the type of its own suffix
RCADMOwn(fn, sfx) == sfx

\* what a real-valued accessor hands back when the matrix is used through a
\* pointer to AbstractDistMatrix<S>: with S the type of the object, the value;
\* otherwise the behaviour is undefined, and the value, a zero or another
\* number are among the outcomes
AccessThrough(S, M, v) == IF SuffixType(S) = M.type THEN {v} ELSE {v, 0, v + 1}

Call(name, sfx, raised, args) == [name |-> name, sfx |-> sfx, raised |-> raised, args |-> args]

\* a submatrix created in the default distribution
SubmatrixTargetDefault(M) == NewDistMatrix(M.type, "MC", "MR", M.grid)

\* new DistMatrix<T,STAR,STAR>( A->Grid() )
SubmatrixTarget(M) == NewDistMatrix(M.type, "STAR", "STAR", M.grid)

\* the suffix of the functions a handle of this matrix is passed to
HandleSuffix(M) == CHOOSE sfx \in Suffixes : SuffixType(sfx) = M.type

InitBind ==
    /\ handle = NoMatrix /\ outHandle = NoMatrix /\ valOut = <<>>
    /\ retCode = "none" /\ lastCall = NoCall /\ bpc = "start"
    \* no factorization is running, no proxy is live
    /\ n = 0 /\ conjugate = FALSE /\ pivotType = "BUNCH_KAUFMAN_A" /\ gamma = RZero
    /\ A0 = <<>> /\ A = <<>> /\ caller = "user"
    /\ dSub = <<>> /\ dSubH = 0
    /\ p = <<>> /\ pH = 0
    /\ X = <<>> /\ Y = <<>> /\ XW = 0 /\ YW = 0
    /\ bsize = 0 /\ k = 0 /\ nbProp = 0 /\ kp = 0
    /\ pivot = NoPivot
    /\ pc = "idle"
    /\ err = "none"
    /\ last = NoStep
    /\ orig = NoMatrix /\ fresh = NoMatrix /\ back = NoMatrix
    /\ proxy = NoProxy
    /\ ctrl = NoCtrl
    /\ unwinding = FALSE
    /\ events = <<>>
    /\ written = NoWrite
    /\ orig0 = <<>>
    /\ ppc = "idle"
    /\ wpivot = <<>> /\ wpc = <<>> /\ wops = <<>>
    /\ call = NoCall /\ operands = <<>> /\ operands0 = <<>> /\ epc = "idle" /\ eerr = "none"

\* ElDistMatrixCreateSpecific_s/d/c/z( U, V, grid, &A )
ElDistMatrixCreateSpecific ==
    /\ bpc = "start"
    /\ \E sfx \in Suffixes, U \in Dists, V \in Dists, g \in Grids :
       \E raised \in (IF CreatesPair(U, V) THEN {"none", "bad_alloc"} ELSE {"runtime_error"}) :
          /\ lastCall' = Call("CreateSpecific", sfx, raised, [U |-> U, V |-> V, grid |-> g])
          /\ retCode' = CATCH(raised)
          /\ handle' = IF raised = "none" THEN NewDistMatrix(SuffixType(sfx), U, V, g)
                       ELSE handle
          /\ outHandle' = IF raised = "none" THEN NewDistMatrix(SuffixType(sfx), U, V, g)
                          ELSE outHandle
          /\ bpc' = IF raised = "none" THEN "created" ELSE "failed"
    /\ UNCHANGED <<entryVars, ldlVars, proxyVars, workerVars, valOut>>

\* ElDistMatrixResize_s/d/c/z( A, height, width )
ElDistMatrixResize ==
    /\ bpc = "created"
    /\ \E h \in 1..MaxDim, w \in 1..MaxDim, raised \in {"none", "bad_alloc"} :
          /\ lastCall' = Call("Resize", HandleSuffix(handle), raised, [h |-> h, w |-> w])
          /\ retCode' = CATCH(raised)
          /\ IF raised = "none"
             THEN \E junk \in JunkValues(handle.type) : handle' = Resize(handle, h, w, junk)
             ELSE handle' = handle
          /\ bpc' = IF raised = "none" THEN "sized" ELSE "failed"
    /\ UNCHANGED <<entryVars, ldlVars, proxyVars, workerVars, outHandle, valOut>>

\* ElDistMatrixSet_s/d/c/z( A, i, j, alpha )
ElDistMatrixSet ==
    /\ bpc = "sized"
    /\ \E ij \in Indices(handle) :
          /\ GlobalGet(handle, ij[1], ij[2]) # CellValue(handle.type, ij[1], ij[2])
          /\ lastCall' = Call("Set", HandleSuffix(handle), "none", [i |-> ij[1], j |-> ij[2]])
          /\ handle' = SetEntry(handle, ij[1], ij[2], CellValue(handle.type, ij[1], ij[2]))
    /\ retCode' = CATCH("none")
    /\ UNCHANGED <<entryVars, ldlVars, proxyVars, workerVars, outHandle, valOut, bpc>>

\* ElDistMatrixGet_s/d/c/z( A, i, j, &val )
ElDistMatrixGet ==
    /\ bpc = "sized"
    /\ \E ij \in Indices(handle) :
          /\ lastCall' = Call("Get", HandleSuffix(handle), "none", [i |-> ij[1], j |-> ij[2]])
          /\ valOut' = IF IsComplex(handle.type) THEN GlobalGet(handle, ij[1], ij[2])
                       ELSE <<GlobalGet(handle, ij[1], ij[2])>>
    /\ retCode' = CATCH("none")
    /\ bpc' = "called"
    /\ UNCHANGED <<entryVars, ldlVars, proxyVars, workerVars, handle, outHandle>>

\* ElDistMatrixGetRealPart_c/z( A, i, j, &val )
ElDistMatrixGetRealPart ==
    /\ bpc = "sized" /\ IsComplex(handle.type)
    /\ \E ij \in Indices(handle) :
       LET sfx == HandleSuffix(handle) IN
          /\ lastCall' = Call("GetRealPart", sfx, "none", [i |-> ij[1], j |-> ij[2]])
          /\ \E x \in AccessThrough(RCADM("GetRealPart", sfx), handle,
                                    RealPartOf(GlobalGet(handle, ij[1], ij[2]))) :
                valOut' = <<x>>
    /\ retCode' = CATCH("none")
    /\ bpc' = "called"
    /\ UNCHANGED <<entryVars, ldlVars, proxyVars, workerVars, handle, outHandle>>

\* ElDistMatrixGetImagPart_c/z( A, i, j, &val )
ElDistMatrixGetImagPart ==
    /\ bpc = "sized" /\ IsComplex(handle.type)
    /\ \E ij \in Indices(handle) :
       LET sfx == HandleSuffix(handle) IN
          /\ lastCall' = Call("GetImagPart", sfx, "none", [i |-> ij[1], j |-> ij[2]])
          /\ \E x \in AccessThrough(RCADM("GetImagPart", sfx), handle,
                                    ImagPartOf(GlobalGet(handle, ij[1], ij[2]))) :
                valOut' = <<x>>
    /\ retCode' = CATCH("none")
    /\ bpc' = "called"
    /\ UNCHANGED <<entryVars, ldlVars, proxyVars, workerVars, handle, outHandle>>

\* ElDistMatrixGetDiagonal_s/d/c/z( A, offset, &d )
ElDistMatrixGetDiagonal ==
    /\ bpc = "sized"
    /\ \E offset \in (0 - 1)..1 :
       LET uv == <<handle.colDist, handle.rowDist>> IN
       \E raised \in (IF uv \in DOMAIN DiagonalPairs THEN {"none", "bad_alloc"}
                      ELSE {"runtime_error"}) :
          /\ lastCall' = Call("GetDiagonal", HandleSuffix(handle), raised, [offset |-> offset])
          /\ retCode' = CATCH(raised)
          /\ outHandle' =
                IF raised = "none"
                THEN GetDiagonal(handle,
                                 NewDistMatrix(handle.type, DiagonalPairs[uv][1],
                                               DiagonalPairs[uv][2], handle.grid),
                                 offset)
                ELSE NoMatrix
    /\ bpc' = "called"
    /\ UNCHANGED <<entryVars, ldlVars, proxyVars, workerVars, handle, valOut>>

\* ElDistMatrixGetSubmatrix_s/d/c/z( A, numRowInds, rowInds, numColInds, colInds, &ASub )
ElDistMatrixGetSubmatrix ==
    /\ bpc = "sized"
    /\ \E rowInds \in IndexLists(handle.height), colInds \in IndexLists(handle.width),
          raised \in {"none", "bad_alloc"} :
          /\ lastCall' = Call("GetSubmatrix", HandleSuffix(handle), raised,
                              [rowInds |-> rowInds, colInds |-> colInds])
          /\ retCode' = CATCH(raised)
          /\ outHandle' =
                IF raised = "none"
                THEN GetSubmatrix(handle, rowInds, colInds, SubmatrixTarget(handle))
                ELSE NoMatrix
    /\ bpc' = "called"
    /\ UNCHANGED <<entryVars, ldlVars, proxyVars, workerVars, handle, valOut>>

\* ElPrintDistMatrix_s/d/c/z( A, title ): Print may raise anything
ElPrintDistMatrix ==
    /\ bpc = "sized"
    /\ \E raised \in {"none"} \cup Exceptions :
          /\ lastCall' = Call("Print", HandleSuffix(handle), raised, <<>>)
          /\ retCode' = CATCH(raised)
    /\ bpc' = "called"
    /\ UNCHANGED <<entryVars, ldlVars, proxyVars, workerVars, handle, outHandle, valOut>>

\* ElDistMatrixDestroy_s/d/c/z( A )
ElDistMatrixDestroy ==
    /\ bpc \in {"created", "sized", "called"}
    /\ lastCall' = Call("Destroy", HandleSuffix(handle), "none", <<>>)
    /\ retCode' = CATCH("none")
    /\ handle' = NoMatrix
    /\ bpc' = "destroyed"
    /\ UNCHANGED <<entryVars, ldlVars, proxyVars, workerVars, outHandle, valOut>>

NextBind ==
    \/ ElDistMatrixCreateSpecific \/ ElDistMatrixResize \/ ElDistMatrixSet
    \/ ElDistMatrixGet \/ ElDistMatrixGetRealPart \/ ElDistMatrixGetImagPart
    \/ ElDistMatrixGetDiagonal \/ ElDistMatrixGetSubmatrix
    \/ ElPrintDistMatrix \/ ElDistMatrixDestroy

SpecBind == InitBind /\ [][NextBind]_vars

\* ------------------------------------------------------------------------
\* Properties of the C interface
\* ------------------------------------------------------------------------
\* every worker holds every entry of M
Replicated(M) == \A q \in Procs : DOMAIN M.loc[q] = Indices(M)

\* C11: ElDistMatrixGetDiagonal sends the pair of the source to the pair of the
\* diagonal by the table of twelve entries, the diagonal holds the entries of
\* the requested diagonal (on every worker when the source is (STAR,STAR)), and
\* for a source in any other pair the call returns the runtime error code and
\* writes no output handle.
C11_DiagonalTable ==
    lastCall.name = "GetDiagonal" =>
        LET uv == <<handle.colDist, handle.rowDist>>
            tableDomain ==
                { <<"CIRC", "CIRC">>, <<"MC", "MR">>, <<"MC", "STAR">>, <<"MD", "STAR">>,
                  <<"STAR", "MC">>, <<"STAR", "MD">>, <<"STAR", "MR">>, <<"STAR", "STAR">>,
                  <<"STAR", "VC">>, <<"STAR", "VR">>, <<"VC", "STAR">>, <<"VR", "STAR">> }
            expect ==
                CASE uv = <<"MC", "MR">> -> <<"MD", "STAR">>
                  [] uv = <<"STAR", "MC">> -> <<"MC", "STAR">>
                  [] uv = <<"STAR", "MD">> -> <<"MD", "STAR">>
                  [] uv = <<"STAR", "MR">> -> <<"MR", "STAR">>
                  [] uv = <<"STAR", "VC">> -> <<"VC", "STAR">>
                  [] uv = <<"STAR", "VR">> -> <<"VR", "STAR">>
                  [] OTHER -> uv
            off == lastCall.args.offset
            len == DiagonalLength(handle.height, handle.width, off)
        IN  IF uv \in tableDomain
            THEN lastCall.raised = "none" =>
                    /\ retCode = "EL_SUCCESS"
                    /\ <<outHandle.colDist, outHandle.rowDist>> = expect
                    /\ outHandle.type = handle.type /\ outHandle.grid = handle.grid
                    /\ outHandle.height = len /\ outHandle.width = 1
                    /\ \A i \in 0..(len - 1) :
                          GlobalGet(outHandle, i, 0) =
                             GlobalGet(handle, i + (IF off < 0 THEN 0 - off ELSE 0),
                                               i + (IF off > 0 THEN off ELSE 0))
                    /\ uv = <<"STAR", "STAR">> => Replicated(outHandle)
            ELSE retCode = "EL_RUNTIME_ERROR" /\ outHandle = NoMatrix

C11_Witness ==
    /\ lastCall.name = "GetDiagonal" /\ retCode = "EL_SUCCESS"
    /\ handle.colDist = "STAR" /\ handle.rowDist = "STAR"
    /\ handle.height = MaxDim /\ handle.width = MaxDim /\ lastCall.args.offset = 0
    /\ \A ij \in Indices(handle) :
          GlobalGet(handle, ij[1], ij[2]) = CellValue(handle.type, ij[1], ij[2])
    /\ Replicated(outHandle) /\ outHandle.height = MaxDim

\* C12: ElDistMatrixCreateSpecific, when the allocation succeeds, returns
\* EL_SUCCESS with a new empty matrix of the requested pair on the grid for
\* exactly the fourteen pairs; for every other pair it returns an error code,
\* creates no matrix and leaves the output handle unwritten.
C12_CreateSpecific ==
    lastCall.name = "CreateSpecific" =>
        LET U == lastCall.args.U
            V == lastCall.args.V
            accepted ==
                { <<"CIRC", "CIRC">>, <<"MC", "MR">>, <<"MC", "STAR">>, <<"MD", "STAR">>,
                  <<"MR", "MC">>, <<"MR", "STAR">>, <<"STAR", "MC">>, <<"STAR", "MD">>,
                  <<"STAR", "MR">>, <<"STAR", "STAR">>, <<"STAR", "VC">>, <<"STAR", "VR">>,
                  <<"VC", "STAR">>, <<"VR", "STAR">> }
        IN  IF <<U, V>> \in accepted
            THEN lastCall.raised # "bad_alloc" =>
                    /\ retCode = "EL_SUCCESS"
                    /\ outHandle # NoMatrix /\ outHandle = handle
                    /\ handle.colDist = U /\ handle.rowDist = V
                    /\ handle.grid = lastCall.args.grid
                    /\ handle.type = SuffixType(lastCall.sfx)
                    /\ handle.height = 0 /\ handle.width = 0
            ELSE /\ retCode \in {"EL_ALLOC_ERROR", "EL_LOGIC_ERROR", "EL_RUNTIME_ERROR", "EL_ERROR"}
                 /\ outHandle = NoMatrix /\ handle = NoMatrix

C12_Witness ==
    /\ lastCall.name = "CreateSpecific" /\ retCode = "EL_SUCCESS"
    /\ lastCall.args.U = "MR" /\ lastCall.args.V = "MC" /\ lastCall.sfx = "z"
    /\ handle.colDist = "MR" /\ handle.rowDist = "MC"

\* C13: a binding function returns EL_SUCCESS when nothing was raised,
\* EL_ALLOC_ERROR for a std::bad_alloc, EL_LOGIC_ERROR for a std::logic_error,
\* EL_RUNTIME_ERROR for a std::runtime_error and EL_ERROR for any other
\* std::exception, a derived class counting as its base.
C13_ErrorCodes ==
    lastCall.name # "none" =>
        LET b == Bases(lastCall.raised)
        IN  retCode = (IF lastCall.raised = "none" THEN "EL_SUCCESS"
                       ELSE IF "bad_alloc" \in b THEN "EL_ALLOC_ERROR"
                       ELSE IF "logic_error" \in b THEN "EL_LOGIC_ERROR"
                       ELSE IF "runtime_error" \in b THEN "EL_RUNTIME_ERROR"
                       ELSE "EL_ERROR")

C13_Witness ==
    /\ lastCall.name = "Print" /\ lastCall.raised = "length_error"
    /\ retCode = "EL_LOGIC_ERROR"

\* C14: ElDistMatrixGetRealPart and ElDistMatrixGetImagPart store the real and
\* the imaginary part of the entry (i,j) that ElDistMatrixGet returns, for the
\* single-precision and the double-precision complex matrix alike.
C14_RealImagParts ==
    lastCall.name \in {"GetRealPart", "GetImagPart"} =>
        LET v == GlobalGet(handle, lastCall.args.i, lastCall.args.j)
        IN  /\ retCode = "EL_SUCCESS"
            /\ valOut = <<IF lastCall.name = "GetRealPart" THEN RealPartOf(v) ELSE ImagPartOf(v)>>

\* C15: ElDistMatrixGetSubmatrix leaves the source as it was and creates a
\* (STAR,STAR) matrix on the grid of the source, of size numRowInds x
\* numColInds, whose entry (a,b) is the source entry (rowInds[a], colInds[b]) on
\* every worker.
C15_GetSubmatrix ==
    [][(lastCall'.name = "GetSubmatrix" /\ lastCall'.raised = "none") =>
        LET rowInds == lastCall'.args.rowInds
            colInds == lastCall'.args.colInds
        IN  /\ handle' = handle
            /\ retCode' = "EL_SUCCESS"
            /\ outHandle'.colDist = "STAR" /\ outHandle'.rowDist = "STAR"
            /\ outHandle'.grid = handle.grid /\ outHandle'.type = handle.type
            /\ outHandle'.height = Len(rowInds) /\ outHandle'.width = Len(colInds)
            /\ \A q \in Procs :
               \A a \in 0..(Len(rowInds) - 1), b \in 0..(Len(colInds) - 1) :
                  /\ <<a, b>> \in DOMAIN outHandle'.loc[q]
                  /\ outHandle'.loc[q][<<a, b>>] =
                        GlobalGet(handle, rowInds[a + 1], colInds[b + 1])]_vars

C15_Witness ==
    /\ lastCall.name = "GetSubmatrix" /\ retCode = "EL_SUCCESS"
    /\ handle.colDist = "MR" /\ handle.rowDist = "MC" /\ handle.type = "Complex<double>"
    /\ handle.height = MaxDim /\ handle.width = MaxDim
    /\ lastCall.args.rowInds = <<1, 1>> /\ lastCall.args.colInds = <<1, 0>>
    /\ \A ij \in Indices(handle) :
          GlobalGet(handle, ij[1], ij[2]) = CellValue(handle.type, ij[1], ij[2])
    /\ outHandle.height = 2 /\ outHandle.width = 2

\* ------------------------------------------------------------------------
\* Properties of the pivot searches
\* ------------------------------------------------------------------------
\* the four tests on the trailing block M of order m: alpha = |M(0,0)|, omega
\* the largest magnitude below the diagonal in column 0, at row r, rho the
\* largest magnitude of row r of the symmetric matrix off the diagonal; the
\* second test is alpha*rho >= gamma*omega^2 (withRho) or
\* alpha*omega >= gamma*omega^2
TestsInOrder(M, m, withRho) ==
    LET th == GammaA(gamma)
        alpha2 == AbsSq(M[0][0])
        omega == VectorMax([i \in 1..(m - 1) |-> M[i][0]])
        r == omega.index + 1
        rho2 == VectorMax([j \in 1..(m - 1) |->
                              IF j - 1 < r THEN M[r][j - 1] ELSE M[j][r]]).value
        second ==
            IF withRho
            THEN GeGamma(th, RMul(alpha2, rho2), RMul(omega.value, omega.value))
            ELSE GeGamma(th, RMul(alpha2, omega.value), RMul(omega.value, omega.value))
    IN  IF GeGamma(th, alpha2, omega.value) THEN Pivot1(0)
        ELSE IF second THEN Pivot1(0)
        ELSE IF GeGamma(th, AbsSq(M[r][r]), rho2) THEN Pivot1(r)
        ELSE Pivot2(0, r)

\* C16 (as stated): the pivot BunchKaufmanA returns is the one of the four
\* tests taken in order, the second being alpha*omega >= gamma*omega^2.
C16_TestsWithoutRho ==
    (pc = "unblocked_pivot" /\ pivotType = "BUNCH_KAUFMAN_A" /\ pivot.status = "ok") =>
        pivot = TestsInOrder(ViewBR(A, k, n), n - k, FALSE)

\* C16 (amended): the pivot BunchKaufmanA returns is the one of the four tests
\* taken in order, the second being alpha >= gamma*omega*(omega/rho), that is
\* alpha*rho >= gamma*omega^2.
C16_TestsWithRho ==
    (pc = "unblocked_pivot" /\ pivotType = "BUNCH_KAUFMAN_A" /\ pivot.status = "ok") =>
        pivot = TestsInOrder(ViewBR(A, k, n), n - k, TRUE)

\* the second test decides: the first fails and the pivot is 1x1 at 0
C16_Witness ==
    /\ pc = "unblocked_pivot" /\ pivotType = "BUNCH_KAUFMAN_A"
    /\ n - k = 3 /\ pivot = Pivot1(0)
    /\ ~GeGamma(GammaA(gamma), AbsSq(A[k][k]), AbsSq(A[k + 1][k]))
    /\ AbsSq(A[k + 1][k]) = <<4, 1>> /\ AbsSq(A[k + 2][k + 1]) = <<9, 1>>

\* the trailing block with the pending update of the first cur columns of the
\* panel applied to its lower triangle
PendingApplied(M, m, cur) ==
    [i \in 0..(m - 1) |-> [j \in 0..(m - 1) |->
        IF i >= j /\ j >= cur /\ cur > 0 THEN Sub(M[i][j], DotK(X, i, Y, j, cur)) ELSE M[i][j]]]

\* the two outcomes of strategy D at column cur of U: threshold 525/1000, row
\* maximum taken over row r of the symmetric matrix from column cur on, the
\* diagonal entry (r,r) included
TestsOfD(U, m, cur) ==
    LET th == [kind |-> "rat", g2 |-> RNorm(441, 1600)]
        alpha2 == AbsSq(U[cur][cur])
        omega == VectorMax([i \in 1..(m - cur - 1) |-> U[cur + i][cur]])
        r == omega.index + cur + 1
        rho2 == VectorMax([j \in 1..(m - cur) |->
                              IF cur + j - 1 <= r THEN U[r][cur + j - 1]
                              ELSE U[cur + j - 1][r]]).value
    IN  IF \/ GeGamma(th, alpha2, omega.value)
           \/ GeGamma(th, RMul(alpha2, rho2), RMul(omega.value, omega.value))
        THEN Pivot1(cur)
        ELSE Pivot2(cur, r)

\* C17: with gamma = 0, BunchKaufmanD and PanelBunchKaufmanD return the 1x1
\* pivot at the current column or the 2x2 pivot at the current column and r,
\* never a 1x1 pivot at r, decided with the threshold 0.525 and a row maximum
\* that includes the diagonal entry (r,r).
C17_StrategyD ==
    (pivotType = "BUNCH_KAUFMAN_D" /\ gamma = RZero /\ pivot.status = "ok") =>
        /\ pc = "unblocked_pivot" => pivot = TestsOfD(ViewBR(A, k, n), n - k, 0)
        /\ pc = "panel_pivot" =>
              pivot = TestsOfD(PendingApplied(ViewBR(A, k, n), n - k, kp), n - k, kp)
        /\ pc \in {"unblocked_pivot", "panel_pivot"} =>
              LET cur == IF pc = "panel_pivot" THEN kp ELSE 0
              IN  \/ pivot.nb = 1 /\ pivot.from = <<cur>>
                  \/ pivot.nb = 2 /\ pivot.from[1] = cur /\ pivot.from[2] > cur

\* the diagonal entry (r,r) is the row maximum and decides for the 1x1 pivot
C17_Witness ==
    /\ pivotType = "BUNCH_KAUFMAN_D" /\ pc = "panel_pivot" /\ kp = 0
    /\ ViewBR(A, k, n) = MatrixDiag
    /\ pivot = Pivot1(0)

\* ------------------------------------------------------------------------
\* Properties of the drivers
\* ------------------------------------------------------------------------
\* C18: a call of Pivoted on a non-empty matrix runs BlockedPivoted exactly
\* when ChoosePanelPivot has a case for the strategy, no pivot search of the
\* panel then ends in the "not yet supported" logic error, and Bunch-Parlett
\* is run by UnblockedPivoted.
C18_Dispatch ==
    (caller = "Pivoted" /\ n >= 1 /\ pc # "pivoted") =>
        LET accepted ==
                ChoosePanelPivot(A0, n, <<>>, <<>>, 0, pivotType, gamma).status # "logic"
        IN  /\ accepted <=> bsize > 0
            /\ accepted <=> pc \in {"blocked", "panel", "panel_pivot", "update", "done"}
                            /\ (pc = "done" => last.in # "unblocked")
            /\ pc = "panel_pivot" => pivot.status # "logic"
            /\ pivotType = "BUNCH_PARLETT" =>
                  /\ bsize = 0
                  /\ pc \in {"unblocked", "unblocked_pivot", "done"}

C18_Witness ==
    /\ caller = "Pivoted" /\ pivotType = "BUNCH_KAUFMAN_D"
    /\ pc = "panel_pivot" /\ k + kp >= 1 /\ pivot.status = "ok"

\* C19 (as stated): with Bunch-Kaufman C on a non-empty matrix the unblocked
\* algorithm ends in a logic error, while a call that runs the panel ends
\* without one.
C19_PanelSilent ==
    (pivotType = "BUNCH_KAUFMAN_C" /\ n >= 1 /\ pc = "done") =>
        /\ bsize = 0 => err = "logic"
        /\ bsize > 0 => err # "logic"

\* C19 (amended): with Bunch-Kaufman C on a non-empty matrix the unblocked
\* algorithm and the panel both end in a logic error at their first step, after
\* the swap of the diagonal maximum and before any pivot is searched or stored.
C19_LogicErrorOnBothPaths ==
    (pivotType = "BUNCH_KAUFMAN_C" /\ n >= 1) =>
        /\ pc \notin {"panel_pivot", "unblocked_pivot", "update"}
        /\ pc = "done" =>
              /\ err = "logic" /\ last.kind = "logic"
              /\ last.in = (IF bsize > 0 THEN "panel" ELSE "unblocked")
              /\ k = 0 /\ kp = 0
              /\ p = Unwritten(n)
              /\ Len(last.swaps) = 1 /\ last.swaps[1][1] = 0
              /\ A = ApplySwaps(A0, n, last.swaps, conjugate)

C19_Witness ==
    /\ pivotType = "BUNCH_KAUFMAN_C" /\ caller = "Pivoted" /\ n = MaxN
    /\ pc = "done" /\ err = "logic" /\ last.in = "panel"
    /\ last.swaps[1][2] > 0 /\ A # A0

\* ------------------------------------------------------------------------
\* The DistMatrix overloads of BlockedPivoted and PanelPivoted.  Every worker
\* of the grid runs the same code on the entries it owns; A, X and Y hold the
\* global matrices, of which worker q = <<process row, process column>>
\* stores its share.  wops[q] lists the collective operations q has entered
\* in the current iteration of the panel loop; a worker leaves a collective
\* once every worker has entered it.
\* ------------------------------------------------------------------------
\* inputs of the distributed runs
DistOffVals == {Re(0), Re(2)}

DistInputMatrices(m) ==
    { [i \in 0..(m - 1) |-> [j \in 0..(m - 1) |->
          IF i = j THEN d[i] ELSE IF i > j THEN o[<<i, j>>] ELSE o[<<j, i>>]]] :
      d \in [0..(m - 1) -> DiagVals], o \in [StrictLower(m) -> DistOffVals] }

\* A is [MC,MR] with zero alignments and ABR = ViewRange( A, off, off, n, n ):
\* the process row owning row i and the process column owning column j of ABR
OwnerRow(i) == (k + i) % GridHeight
OwnerCol(j) == (k + j) % GridWidth
Owner(i, j) == <<OwnerRow(i), OwnerCol(j)>>

\* X is [MC,STAR] and Y is [MR,STAR], both aligned with ABR (X.AlignWith( ABR ),
\* Y.AlignWith( ABR )): worker q stores the rows of X its process row owns and
\* the rows of Y its process column owns; no other row is in its buffer
LocalX(q) ==
    [i \in DOMAIN X |-> IF OwnerRow(i) = q[1] THEN X[i] ELSE [c \in DOMAIN X[i] |-> NaN]]

LocalY(q) ==
    [i \in DOMAIN Y |-> IF OwnerCol(i) = q[2] THEN Y[i] ELSE [c \in DOMAIN Y[i] |-> NaN]]

\* entry (i,j) of the copies zB1, zLeft and zBottom in the buffer of the
\* worker q that owns it, after the LocalGemv that the owning process column
\* (process row for zLeft) performs on its own rows of X and Y
LocalZ(q, i, j) == Sub(A[k + i][k + j], DotK(LocalX(q), i, LocalY(q), j, kp))

\* Get(i,j) on a distributed matrix: the owner's value, received by every worker
Get(q, i, j) == LocalZ(Owner(i, j), i, j)

\* a read of the worker's own buffer, which holds nothing of an entry it does
\* not own
GetLocal(q, i, j) == IF q = Owner(i, j) THEN LocalZ(q, i, j) ELSE Zero

\* VectorMax of a distributed vector: the largest magnitude over the owners'
\* entries and its first index, received by every worker
DistVectorMax(q, entries) ==
    VectorMax([t \in 1..Len(entries) |->
                  LocalZ(Owner(entries[t][1], entries[t][2]), entries[t][1], entries[t][2])])

Searched(pv, ops) == [pivot |-> pv, ops |-> ops]

\* a search that reads the diagonal entry from the worker's own buffer
DistPanelBunchKaufmanALocal(q) ==
    LET th == GammaA(gamma)
        m == n - k
        alpha11Abs == AbsSq(GetLocal(q, kp, kp))
        a21Max == DistVectorMax(q, [t \in 1..(m - kp - 1) |-> <<kp + t, kp>>])
        r == a21Max.index + (kp + 1)
        leftMax == DistVectorMax(q, [t \in 1..(r - kp) |-> <<r, kp + t - 1>>])
        bottomMax == DistVectorMax(q, [t \in 1..(m - r - 1) |-> <<r + t, r>>])
        rowMaxVal == RMax(leftMax.value, bottomMax.value)
        first == <<"Get zB1", "VectorMax zB1">>
        second == first \o <<"VectorMax zLeft", "VectorMax zStrictBottom">>
        third == second \o <<"Get zBottom">>
    IN  IF a21Max.value = RZero /\ alpha11Abs = RZero THEN Searched(Singular, first)
        ELSE IF GeGamma(th, alpha11Abs, a21Max.value) THEN Searched(Pivot1(kp), first)
        ELSE IF GeGammaRatio(th, alpha11Abs, a21Max.value, rowMaxVal)
            THEN Searched(Pivot1(kp), second)
        ELSE IF GeGamma(th, AbsSq(GetLocal(q, r, r)), rowMaxVal) THEN Searched(Pivot1(r), third)
        ELSE Searched(Pivot2(kp, r), third)

\* pivot::PanelBunchKaufmanA, DistMatrix overload, as run by worker q: the
\* pivot it returns and the collective operations it enters on the way
DistPanelBunchKaufmanA(q) ==
    LET th == GammaA(gamma)
        m == n - k
        alpha11Abs == AbsSq(Get(q, kp, kp))
        a21Max == DistVectorMax(q, [t \in 1..(m - kp - 1) |-> <<kp + t, kp>>])
        r == a21Max.index + (kp + 1)
        leftMax == DistVectorMax(q, [t \in 1..(r - kp) |-> <<r, kp + t - 1>>])
        bottomMax == DistVectorMax(q, [t \in 1..(m - r - 1) |-> <<r + t, r>>])
        rowMaxVal == RMax(leftMax.value, bottomMax.value)
        first == <<"Get zB1", "VectorMax zB1">>
        second == first \o <<"VectorMax zLeft", "VectorMax zStrictBottom">>
        third == second \o <<"Get zBottom">>
    IN  IF a21Max.value = RZero /\ alpha11Abs = RZero THEN Searched(Singular, first)
        ELSE IF GeGamma(th, alpha11Abs, a21Max.value) THEN Searched(Pivot1(kp), first)
        ELSE IF GeGammaRatio(th, alpha11Abs, a21Max.value, rowMaxVal)
            THEN Searched(Pivot1(kp), second)
        ELSE IF GeGamma(th, AbsSq(Get(q, r, r)), rowMaxVal) THEN Searched(Pivot1(r), third)
        ELSE Searched(Pivot2(kp, r), third)

\* pivot::PanelBunchKaufmanD, DistMatrix overload, as run by worker q
DistPanelBunchKaufmanD(q) ==
    LET th == GammaD(gamma)
        m == n - k
        alpha11Abs == AbsSq(Get(q, kp, kp))
        a21Max == DistVectorMax(q, [t \in 1..(m - kp - 1) |-> <<kp + t, kp>>])
        r == a21Max.index + (kp + 1)
        leftMax == DistVectorMax(q, [t \in 1..(r - kp) |-> <<r, kp + t - 1>>])
        bottomMax == DistVectorMax(q, [t \in 1..(m - r) |-> <<r + t - 1, r>>])
        rowMaxVal == RMax(leftMax.value, bottomMax.value)
        first == <<"Get zB1", "VectorMax zB1">>
        second == first \o <<"VectorMax zLeft", "VectorMax zBottom">>
    IN  IF a21Max.value = RZero /\ alpha11Abs = RZero THEN Searched(Singular, first)
        ELSE IF GeGamma(th, alpha11Abs, a21Max.value) THEN Searched(Pivot1(kp), first)
        ELSE IF GeGammaRatio(th, alpha11Abs, a21Max.value, rowMaxVal)
            THEN Searched(Pivot1(kp), second)
        ELSE Searched(Pivot2(kp, r), second)

\* PanelPivoted, DistMatrix overload, from the loop head to the pivot record:
\* the BUNCH_KAUFMAN_C branch, which ends in LogicError, or ChoosePanelPivot
DistChoosePanelPivot(q) ==
    CASE pivotType = "BUNCH_KAUFMAN_C" ->
             Searched(LogicErr, <<"DiagonalMax", "SymmetricSwap", "RowSwap X", "RowSwap Y">>)
      [] pivotType = "BUNCH_KAUFMAN_A" -> DistPanelBunchKaufmanA(q)
      [] pivotType = "BUNCH_KAUFMAN_D" -> DistPanelBunchKaufmanD(q)
      [] OTHER -> Searched(LogicErr, <<>>)

\* the branch of PanelPivoted a worker takes with the pivot record it holds
Branch(pv) ==
    IF pv.status # "ok" THEN pv.status
    ELSE IF PanelOverflows(kp, pv, nbProp) THEN "overflow"
    ELSE IF pv.nb = 1 THEN "1x1" ELSE "2x2"

\* the collective operations of a step after the symmetric swap has begun
StepOps(branch) ==
    IF branch = "1x1"
    THEN <<"RowSwap X", "RowSwap Y", "Get ABR", "Copy y21", "Copy x21">>
    ELSE <<"RowSwap X", "RowSwap Y", "Get AB1", "Copy Y21", "Copy D11", "Copy X21">>

\* the collective a worker entered last has been entered by every worker
LastCompleted(q) ==
    LET j == Len(wops[q])
    IN  IF j = 0 THEN TRUE
        ELSE \A r \in Procs : IF Len(wops[r]) >= j THEN wops[r][j] = wops[q][j] ELSE FALSE

AllIn(branch) == \A q \in Procs : wpc[q] = branch

SamePivot == \A q, r \in Procs : wpivot[q] = wpivot[r] /\ wops[q] = wops[r]

AnyWorker == CHOOSE q \in Procs : TRUE

Idle == [q \in Procs |-> "idle"]

InitDist ==
    /\ n \in 0..MaxN
    /\ conjugate = FALSE
    /\ pivotType \in PivotTypes
    /\ gamma \in Gammas
    /\ A0 \in DistInputMatrices(n) \cup ScenarioMatrices(n)
    /\ A = A0
    /\ caller = "user"
    /\ dSub = <<>> /\ dSubH = 0
    /\ p = <<>> /\ pH = 0
    /\ X = <<>> /\ Y = <<>> /\ XW = 0 /\ YW = 0
    /\ bsize = 0 /\ k = 0 /\ nbProp = 0 /\ kp = 0
    /\ pivot = NoPivot
    /\ pc = "start"
    /\ err = "none"
    /\ last = NoStep
    /\ orig = NoMatrix /\ fresh = NoMatrix /\ back = NoMatrix
    /\ proxy = NoProxy
    /\ ctrl = NoCtrl
    /\ unwinding = FALSE
    /\ events = <<>>
    /\ written = NoWrite
    /\ orig0 = <<>>
    /\ ppc = "idle"
    /\ handle = NoMatrix /\ outHandle = NoMatrix /\ valOut = <<>>
    /\ retCode = "none" /\ lastCall = NoCall /\ bpc = "idle"
    /\ wpivot = [q \in Procs |-> NoPivot]
    /\ wpc = Idle
    /\ wops = [q \in Procs |-> <<>>]
    /\ call = NoCall /\ operands = <<>> /\ operands0 = <<>> /\ epc = "idle" /\ eerr = "none"

\* BlockedPivoted( DistMatrix<F>& A, ... ) up to the loop
DistCallBlockedPivoted ==
    /\ pc = "start"
    /\ EnterFactorization(TRUE, TRUE)
    /\ UNCHANGED <<entryVars, bindVars, workerVars, proxyVars, A, X, Y, XW, YW, n, conjugate, pivotType,
                   gamma, k, nbProp, kp, pivot, A0, caller>>

\* loop head with k < n and the entry code of PanelPivoted, on every worker
DistOpenPanel ==
    /\ pc = "blocked" /\ k < n
    /\ nbProp' = BlockedNbProp(bsize, n, k)
    /\ X' = Zeros(n - k, nbProp') /\ XW' = nbProp'
    /\ Y' = Zeros(n - k, nbProp') /\ YW' = nbProp'
    /\ kp' = 0
    /\ pc' = "panel"
    /\ wpc' = [q \in Procs |-> "search"]
    /\ wops' = [q \in Procs |-> <<>>]
    /\ wpivot' = [q \in Procs |-> NoPivot]
    /\ UNCHANGED <<entryVars, bindVars, proxyVars, A, dSub, dSubH, p, pH, n, conjugate, pivotType, gamma,
                   bsize, k, pivot, err, A0, caller, last>>

DistReturn ==
    /\ pc = "blocked" /\ k >= n
    /\ pc' = "done"
    /\ UNCHANGED <<entryVars, bindVars, workerVars, proxyVars, A, dSub, dSubH, p, pH, X, Y, XW, YW, n,
                   conjugate, pivotType, gamma, bsize, k, nbProp, kp, pivot, err, A0, caller,
                   last>>

\* worker q enters the next collective operation of its pivot search
WorkerEnter(q) ==
    /\ pc = "panel" /\ wpc[q] = "search"
    /\ LastCompleted(q)
    /\ LET ops == DistChoosePanelPivot(q).ops
       IN  /\ Len(wops[q]) < Len(ops)
           /\ wops' = [wops EXCEPT ![q] = Append(@, ops[Len(wops[q]) + 1])]
    /\ UNCHANGED <<entryVars, bindVars, proxyVars, ldlVars, wpivot, wpc>>

\* worker q holds its pivot record and takes its branch: it raises, breaks out
\* of the loop, or enters the symmetric swap
WorkerBranch(q) ==
    /\ pc = "panel" /\ wpc[q] = "search"
    /\ LastCompleted(q)
    /\ LET s == DistChoosePanelPivot(q)
       IN  /\ Len(wops[q]) = Len(s.ops)
           /\ wpivot' = [wpivot EXCEPT ![q] = s.pivot]
           /\ wpc' = [wpc EXCEPT ![q] = Branch(s.pivot)]
           /\ wops' = IF Branch(s.pivot) \in {"1x1", "2x2"}
                      THEN [wops EXCEPT ![q] = Append(@, "SymmetricSwap")]
                      ELSE wops
    /\ UNCHANGED <<entryVars, bindVars, proxyVars, ldlVars>>

\* every worker has raised: the call ends with the error
DistPanelFail ==
    /\ pc = "panel"
    /\ AllIn("singular") \/ AllIn("logic")
    /\ SamePivot
    /\ LET pv == wpivot[AnyWorker]
           diagMax == DiagonalMax(ViewBR(A, k + kp, n), n - k - kp)
           sw == IF pivotType = "BUNCH_KAUFMAN_C"
                 THEN << <<k + kp, k + kp + diagMax.index>> >> ELSE <<>>
           rsw == IF pivotType = "BUNCH_KAUFMAN_C"
                  THEN << <<kp, kp + diagMax.index>> >> ELSE <<>>
       IN  /\ A' = ApplySwaps(A, n, sw, conjugate)
           /\ X' = ApplyRowSwaps(X, rsw)
           /\ Y' = ApplyRowSwaps(Y, rsw)
           /\ pivot' = pv
           /\ err' = pv.status
           /\ last' = [Step("panel", k, pv.status, 0, sw, rsw, rsw) EXCEPT !.dist = TRUE]
    /\ pc' = "done"
    /\ UNCHANGED <<entryVars, bindVars, workerVars, proxyVars, dSub, dSubH, p, pH, XW, YW, n, conjugate,
                   pivotType, gamma, bsize, k, nbProp, kp, A0, caller>>

\* every worker has found k+pivot.nb > bsize, shrunk X and Y and left the loop
DistPanelOverflow ==
    /\ pc = "panel"
    /\ AllIn("overflow")
    /\ SamePivot
    /\ pivot' = wpivot[AnyWorker]
    /\ X' = ShrinkWidth(X, PanelOverflowWidth(nbProp)) /\ XW' = PanelOverflowWidth(nbProp)
    /\ Y' = ShrinkWidth(Y, PanelOverflowWidth(nbProp)) /\ YW' = PanelOverflowWidth(nbProp)
    /\ pc' = "update"
    /\ wpc' = [q \in Procs |-> "exit"]
    /\ last' = [Step("panel", k, "overflow", pivot'.nb, <<>>, <<>>, <<>>) EXCEPT !.dist = TRUE]
    /\ UNCHANGED <<entryVars, bindVars, proxyVars, wpivot, wops, A, dSub, dSubH, p, pH, n, conjugate,
                   pivotType, gamma, bsize, k, nbProp, kp, err, A0, caller>>

\* every worker has entered the same symmetric swap with a 1x1 pivot: the swap
\* and the update of the step are carried out
DistPanelStep1x1 ==
    /\ pc = "panel"
    /\ AllIn("1x1")
    /\ SamePivot
    /\ LET pv == wpivot[AnyWorker]
           sw == PanelSwaps(k, kp, pv)
           rsw == PanelRowSwaps(k, kp, pv)
           u == PanelUpdate1(ApplySwaps(A, n, sw, conjugate),
                             ApplyRowSwaps(X, rsw), ApplyRowSwaps(Y, rsw),
                             n, k, kp, conjugate)
       IN  /\ A' = u.A /\ X' = u.X /\ Y' = u.Y
           /\ p' = [p EXCEPT ![k + kp] = PanelFrom(k, pv)]
           /\ pivot' = pv
           /\ last' = [Step("panel", k, "1x1", pv.nb, sw, rsw, rsw) EXCEPT !.dist = TRUE]
    /\ kp' = kp + 1
    /\ wops' = [q \in Procs |-> wops[q] \o StepOps("1x1")]
    /\ wpc' = [q \in Procs |-> "stepped"]
    /\ UNCHANGED <<entryVars, bindVars, proxyVars, wpivot, dSub, dSubH, pH, XW, YW, n, conjugate,
                   pivotType, gamma, bsize, k, nbProp, pc, err, A0, caller>>

\* the same with a 2x2 pivot
DistPanelStep2x2 ==
    /\ pc = "panel"
    /\ AllIn("2x2")
    /\ SamePivot
    /\ LET pv == wpivot[AnyWorker]
           sw == PanelSwaps(k, kp, pv)
           rsw == PanelRowSwaps(k, kp, pv)
           u == PanelUpdate2(ApplySwaps(A, n, sw, conjugate),
                             ApplyRowSwaps(X, rsw), ApplyRowSwaps(Y, rsw),
                             n, k, kp, conjugate)
       IN  /\ A' = u.A /\ X' = u.X /\ Y' = u.Y
           /\ dSub' = [dSub EXCEPT ![k + kp] = u.dSub]
           /\ p' = [p EXCEPT ![k + kp] = k + kp, ![k + kp + 1] = PanelFrom(k, pv)]
           /\ pivot' = pv
           /\ last' = [Step("panel", k, "2x2", pv.nb, sw, rsw, rsw) EXCEPT !.dist = TRUE]
    /\ kp' = kp + 2
    /\ wops' = [q \in Procs |-> wops[q] \o StepOps("2x2")]
    /\ wpc' = [q \in Procs |-> "stepped"]
    /\ UNCHANGED <<entryVars, bindVars, proxyVars, wpivot, dSubH, pH, XW, YW, n, conjugate,
                   pivotType, gamma, bsize, k, nbProp, pc, err, A0, caller>>

\* loop head of PanelPivoted after a step, with k < bsize
DistPanelLoop ==
    /\ pc = "panel" /\ AllIn("stepped") /\ kp < nbProp
    /\ wpc' = [q \in Procs |-> "search"]
    /\ wops' = [q \in Procs |-> <<>>]
    /\ wpivot' = [q \in Procs |-> NoPivot]
    /\ UNCHANGED <<entryVars, bindVars, proxyVars, ldlVars>>

\* the loop of PanelPivoted ends with k == bsize
DistPanelLoopExit ==
    /\ pc = "panel" /\ AllIn("stepped") /\ kp >= nbProp
    /\ pc' = "update"
    /\ wpc' = [q \in Procs |-> "exit"]
    /\ UNCHANGED <<entryVars, bindVars, proxyVars, wpivot, wops, A, dSub, dSubH, p, pH, X, Y, XW, YW, n,
                   conjugate, pivotType, gamma, bsize, k, nbProp, kp, pivot, err, A0, caller,
                   last>>

\* BlockedPivoted after PanelPivoted: nb = X.Width(), LocalTrrk on every
\* worker's own entries, k += nb
DistTrailingUpdate ==
    /\ pc = "update"
    /\ A' = TrailingUpdate(A, X, Y, n, k, XW)
    /\ k' = k + XW
    /\ pc' = "blocked"
    /\ UNCHANGED <<entryVars, bindVars, workerVars, proxyVars, dSub, dSubH, p, pH, X, Y, XW, YW, n,
                   conjugate, pivotType, gamma, bsize, nbProp, kp, pivot, err, A0, caller, last>>

NextDist ==
    \/ DistCallBlockedPivoted \/ DistOpenPanel \/ DistReturn
    \/ \E q \in Procs : WorkerEnter(q)
    \/ \E q \in Procs : WorkerBranch(q)
    \/ DistPanelFail \/ DistPanelOverflow \/ DistPanelStep1x1 \/ DistPanelStep2x2
    \/ DistPanelLoop \/ DistPanelLoopExit
    \/ DistTrailingUpdate

SpecDist == InitDist /\ [][NextDist]_vars

Decided(q) == wpc[q] \in {"singular", "logic", "overflow", "1x1", "2x2"}

Prefix(s, t) == Len(s) <= Len(t) /\ \A i \in 1..Len(s) : s[i] = t[i]

\* worker r has not entered the collective worker q entered last, and enters
\* it next
WillEnter(r, q) ==
    LET j == Len(wops[q])
        ops == DistChoosePanelPivot(r).ops
    IN  /\ wpc[r] = "search"
        /\ Len(wops[r]) = j - 1
        /\ IF j <= Len(ops) THEN ops[j] = wops[q][j]
           ELSE wops[q][j] = "SymmetricSwap" /\ Branch(DistChoosePanelPivot(r).pivot) \in {"1x1", "2x2"}

\* C20: in the distributed PanelPivoted and BlockedPivoted every worker
\* obtains the same pivot record at every step, the one the sequential search
\* returns on the global matrix, takes the same branch and enters the same
\* collective operations in the same order; a worker that has entered a
\* collective is joined there by every other worker; the singular-matrix
\* error is raised by all workers or by none.
C20_WorkersAgree ==
    /\ pc = "panel" =>
          \A q, r \in Procs :
              /\ Prefix(wops[q], wops[r]) \/ Prefix(wops[r], wops[q])
              /\ (Decided(q) /\ Decided(r)) =>
                    wpivot[q] = wpivot[r] /\ wpc[q] = wpc[r] /\ wops[q] = wops[r]
              /\ (Decided(q) /\ pivotType # "BUNCH_KAUFMAN_C") =>
                    wpivot[q] = ChoosePanelPivot(ViewBR(A, k, n), n - k, X, Y, kp,
                                                 pivotType, gamma)
              /\ Len(wops[r]) < Len(wops[q]) => WillEnter(r, q)
              /\ wpc[q] = "singular" =>
                    \/ wpc[r] = "singular"
                    \/ wpc[r] = "search" /\ DistChoosePanelPivot(r).pivot = Singular
    /\ (pc = "done" /\ err = "singular") => AllIn("singular")
    /\ (pc = "done" /\ err = "none" /\ n >= 1) => AllIn("exit")

C20_Witness ==
    /\ pc = "panel" /\ k + kp >= 1
    /\ \E q, r \in Procs :
          /\ wpc[q] = "2x2" /\ wpivot[q] = Pivot2(kp, kp + 1)
          /\ wpc[r] = "search" /\ Len(wops[r]) < Len(wops[q])

\* ------------------------------------------------------------------------
\* Claims about the overflow of a panel, the order of a step and the stored
\* factors
\* ------------------------------------------------------------------------
HasColumns(Z, w) == \A i \in DOMAIN Z : DOMAIN Z[i] = 0..(w - 1)

\* C21: when PanelPivoted stops because the pivot chosen at local column k
\* does not fit, X and Y are left with exactly k columns, the columns the
\* panel completed, and BlockedPivoted advances its offset by k and applies
\* the trailing update with those k columns.
C21_OverflowKeepsCompleted ==
    [][(pc = "update" /\ last.kind = "overflow") =>
          /\ XW = kp /\ YW = kp
          /\ HasColumns(X, kp) /\ HasColumns(Y, kp)
          /\ k' = k + kp
          /\ A' = TrailingUpdate(A, X, Y, n, k, kp)]_vars

C21_Witness ==
    /\ pc = "blocked" /\ last.kind = "overflow"
    /\ kp = 1 /\ XW = 1 /\ k = last.off + 1

\* local column c of the current panel is the first (second) column of a 2x2 pivot
FirstOf2(c) == k + c < n - 1 /\ dSub[k + c] # Zero
SecondOf2(c) == c >= 1 /\ dSub[k + c - 1] # Zero

\* entry (i,c) of X D, where D is the block diagonal left in A and dSub
TimesD(i, c) ==
    IF FirstOf2(c)
    THEN Add(Mul(X[i][c], A[k + c][k + c]), Mul(X[i][c + 1], dSub[k + c]))
    ELSE IF SecondOf2(c)
    THEN Add(Mul(X[i][c - 1], C(conjugate, dSub[k + c - 1])), Mul(X[i][c], A[k + c][k + c]))
    ELSE Mul(X[i][c], A[k + c][k + c])

\* C22: in a step of PanelPivoted that fits, A, X and Y are permuted by the
\* same pair of rows before the correction of the step is written and the new
\* factor columns are stored: after every step, row i of X and of Y goes with
\* row off+i of A, that is, each completed column c of the panel has
\* X(i,c) = A(off+i,off+c) and Y(i,c) = (X D)(i,c), conjugated when
\* conjugate, in every row i below the column.
C22_SwapBeforeUpdate ==
    /\ (pc \in {"panel", "panel_pivot", "update"} /\ err = "none") =>
          \A c \in 0..(kp - 1) : \A i \in (c + 1)..(n - k - 1) :
              /\ X[i][c] = A[k + i][k + c]
              /\ (i > c + 1 \/ ~FirstOf2(c)) => Y[i][c] = C(conjugate, TimesD(i, c))
    /\ (last.in = "panel" /\ last.kind \in {"1x1", "2x2"}) =>
          /\ last.swapsX = last.swapsY
          /\ last.swapsX = << <<last.swaps[1][1] - last.off, last.swaps[1][2] - last.off>> >>

C22_Witness ==
    /\ pc = "panel" /\ kp = 2 /\ last.kind = "1x1"
    /\ last.swaps[1][1] # last.swaps[1][2]
    /\ X[1][0] # X[2][0]

\* the number of columns the call has completed
Completed == IF pc = "blocked" THEN k ELSE k + kp

\* the step taken is a pivot step of size nb
StepOf(nb) ==
    /\ \/ pc = "panel_pivot" /\ pc' = "panel"
       \/ pc = "unblocked_pivot" /\ pc' = "unblocked"
    /\ pivot.nb = nb

\* the sub-diagonal entry of the 2x2 block at column j: entry (j+1,j) of the
\* swapped matrix, less the pending correction of the panel
BlockSub(j) ==
    IF pc = "panel_pivot"
    THEN LET A1 == ApplySwaps(A, n, PanelSwaps(k, kp, pivot), conjugate)
             X1 == ApplyRowSwaps(X, PanelRowSwaps(k, kp, pivot))
             Y1 == ApplyRowSwaps(Y, PanelRowSwaps(k, kp, pivot))
         IN  Sub(A1[j + 1][j], DotK(X1, kp + 1, Y1, kp, kp))
    ELSE ApplySwaps(A, n, UnblockedSwaps(k, pivot), conjugate)[j + 1][j]

\* C23: a 2x2 step at global position j stores the sub-diagonal entry of its
\* block in dSub[j] and 0 in A(j+1,j) and writes p[j] and p[j+1]; a 1x1 step
\* writes p[j] and leaves dSub alone; what a step stored for a completed
\* column is never changed afterwards; so when the call returns, dSub is 0
\* except at the first column of each 2x2 pivot, where A(j+1,j) is 0, and
\* every position of p has been written.
C23_StoredFactors ==
    [][/\ StepOf(2) =>
             LET j == k + kp
             IN  /\ dSub' = [dSub EXCEPT ![j] = BlockSub(j)]
                 /\ dSub[j] = Zero
                 /\ A'[j + 1][j] = Zero
                 /\ p'[j] \in 0..(n - 1) /\ p'[j + 1] \in 0..(n - 1)
       /\ StepOf(1) =>
             /\ dSub' = dSub
             /\ p'[k + kp] \in 0..(n - 1)
       /\ (pc \notin {"start", "pivoted", "done"} /\ dSubH = n - 1) =>
             \A j \in 0..(Completed - 1) :
                 /\ p'[j] = p[j] /\ p[j] # -1
                 /\ j < n - 1 => dSub'[j] = dSub[j]
                 /\ (j < n - 1 /\ dSub[j] # Zero) => (A[j + 1][j] = Zero /\ A'[j + 1][j] = Zero)
                 /\ (j >= 1 /\ j < n - 1 /\ dSub[j - 1] # Zero) => dSub[j] = Zero
       /\ (pc' = "done" /\ err' = "none" /\ n >= 1) =>
             /\ PermWritten'
             /\ dSubH' = n - 1
             /\ \A j \in 0..(n - 2) : dSub'[j] # Zero => A'[j + 1][j] = Zero
      ]_vars

C23_Witness ==
    /\ pc = "done" /\ err = "none" /\ n = 3
    /\ dSub[0] = Zero /\ dSub[1] # Zero /\ A[2][1] = Zero
    /\ PermWritten

\* the trailing block from (kp,kp) of ABR - X(:,0:kp-1) Y(:,0:kp-1)^T, lower
\* triangle
CorrectedBR ==
    [i \in 0..(n - k - kp - 1) |-> [j \in 0..(n - k - kp - 1) |->
        Sub(A[k + kp + i][k + kp + j], DotK(X, kp + i, Y, kp + j, kp))]]

\* C24: the panel search of strategy A (D) at local column k returns the pivot
\* that BunchKaufmanA (BunchKaufmanD) returns on the trailing block from (k,k)
\* of A - X(:,0:k-1) Y(:,0:k-1)^T, with its indices shifted by k, and it
\* leaves A, X and Y as they were.
C24_PanelSearchMatches ==
    [][(pc = "panel" /\ pc' = "panel_pivot"
            /\ pivotType \in {"BUNCH_KAUFMAN_A", "BUNCH_KAUFMAN_D"}) =>
          /\ pivot' = ShiftPivot(ChoosePivot(CorrectedBR, n - k - kp, pivotType, gamma), kp)
          /\ A' = A /\ X' = X /\ Y' = Y]_vars

C24_Witness ==
    /\ pc = "panel_pivot" /\ kp = 1 /\ pivot.status = "ok"
    /\ pivotType = "BUNCH_KAUFMAN_A"
    /\ pivot # ShiftPivot(ChoosePivot(ViewBR(A, k + kp, n), n - k - kp, pivotType, gamma), kp)

\* ------------------------------------------------------------------------
\* Argument checks of UnblockedPivoted, BlockedPivoted and PanelPivoted and
\* of the distributed panel pivot selection, on operands of any shape
\* ------------------------------------------------------------------------
MaxShape == 2

Shape(h, w) == [h |-> h, w |-> w]

Shapes(hs, ws) == {Shape(h, w) : h \in hs, w \in ws}

ColAligns == 0..(GridHeight - 1)

RowAligns == 0..(GridWidth - 1)

\* the routines that take A, dSub and p, and the two pivot selections
FactorRoutines == {"UnblockedPivoted", "BlockedPivoted", "PanelPivoted"}

SelectRoutines == {"PanelBunchKaufmanA", "PanelBunchKaufmanD"}

\* a call: the routine, its overload (isDist), the build (release: RELEASE is
\* defined) and the arguments bsize and off of PanelPivoted
Calls ==
    [routine : FactorRoutines \cup SelectRoutines, isDist : BOOLEAN,
     release : BOOLEAN, bsize : 1..MaxBsize, off : 0..1]

\* ColAlign() and RowAlign() of ViewRange( A, off, off, n, n )
ViewColAlign(a, off) == (a.colAlign + off) % GridHeight

ViewRowAlign(a, off) == (a.rowAlign + off) % GridWidth

\* X.AlignWith( ABR ) for X [MC,* ] and Y.AlignWith( ABR ) for Y [MR,* ]
AlignWith(o, off) ==
    [o EXCEPT !.X.colAlign = ViewColAlign(o.A, off),
              !.Y.colAlign = ViewRowAlign(o.A, off)]

\* PanelBunchKaufmanA / D on DistMatrix:
\* A.ColAlign() != X.ColAlign() || A.RowAlign() != Y.ColAlign()
Misaligned(o, off) ==
    \/ ViewColAlign(o.A, off) # o.X.colAlign
    \/ ViewRowAlign(o.A, off) # o.Y.colAlign

\* the checks of UnblockedPivoted and BlockedPivoted, compiled unless RELEASE
PivotedCheck(o) == IF o.A.h # o.A.w THEN "A must be square" ELSE "none"

\* the checks of PanelPivoted, compiled unless RELEASE, in their order
PanelPivotedCheck(o) ==
    LET nn == o.A.h
    IN  IF o.A.w # nn THEN "A must be square"
        ELSE IF o.dSub.h # nn - 1 \/ o.dSub.w # 1 THEN "dSub is the wrong size"
        ELSE IF o.p.h # nn \/ o.p.w # 1 THEN "pivot vector is the wrong size"
        ELSE "none"

\* Zeros( dSub, n-1, 1 ); p.ResizeTo( n, 1 )
SizeOutputs(o, nn) == [o EXCEPT !.dSub = Shape(nn - 1, 1), !.p = Shape(nn, 1)]

\* Zeros( X, n-off, bsize ); Zeros( Y, n-off, bsize )
SizeFactors(o, nn, off, bs) ==
    [o EXCEPT !.X.h = nn - off, !.X.w = bs, !.Y.h = nn - off, !.Y.w = bs]

InitEntry ==
    /\ call \in Calls
    /\ operands \in
          [A : [h : 0..MaxShape, w : 0..MaxShape, colAlign : ColAligns, rowAlign : RowAligns],
           dSub : Shapes(0..MaxShape, 1..2),
           p : Shapes(0..MaxShape, 1..2),
           X : [h : 0..MaxShape, w : 0..MaxBsize, colAlign : ColAligns],
           Y : [h : 0..MaxShape, w : 0..MaxBsize, colAlign : RowAligns]]
    \* a sequential matrix has no alignment; off is an offset into A
    /\ ~call.isDist =>
          /\ operands.A.colAlign = 0 /\ operands.A.rowAlign = 0
          /\ operands.X.colAlign = 0 /\ operands.Y.colAlign = 0
    /\ call.off <= operands.A.h
    /\ IF call.routine \in FactorRoutines
       THEN \* X and Y are output arguments, given empty
            /\ operands.X.h = 0 /\ operands.X.w = 0
            /\ operands.Y.h = 0 /\ operands.Y.w = 0
            /\ call.routine # "PanelPivoted" =>
                  /\ call.off = 0 /\ call.bsize = 1
                  /\ operands.dSub = Shape(0, 1) /\ operands.p = Shape(0, 1)
                  /\ operands.X.colAlign = 0 /\ operands.Y.colAlign = 0
       ELSE \* a pivot selection on a square A with factors of its height
            /\ operands.A.h = operands.A.w /\ operands.A.h >= 1
            /\ operands.X.h = operands.A.h /\ operands.Y.h = operands.A.h
            /\ operands.X.w = operands.Y.w /\ operands.X.w >= 1
            /\ operands.dSub = Shape(0, 1) /\ operands.p = Shape(0, 1)
            /\ call.off = 0 /\ call.bsize = 1
    /\ operands0 = operands
    /\ epc = "call"
    /\ eerr = "none"
    \* no factorization, no proxy, no caller of the C interface, no workers
    /\ n = 0 /\ conjugate = FALSE /\ pivotType = "BUNCH_KAUFMAN_A" /\ gamma = RZero
    /\ A0 = <<>> /\ A = <<>> /\ caller = "user"
    /\ dSub = <<>> /\ dSubH = 0 /\ p = <<>> /\ pH = 0
    /\ X = <<>> /\ Y = <<>> /\ XW = 0 /\ YW = 0
    /\ bsize = 0 /\ k = 0 /\ nbProp = 0 /\ kp = 0
    /\ pivot = NoPivot /\ pc = "idle" /\ err = "none" /\ last = NoStep
    /\ orig = NoMatrix /\ fresh = NoMatrix /\ back = NoMatrix
    /\ proxy = NoProxy /\ ctrl = NoCtrl /\ unwinding = FALSE
    /\ events = <<>> /\ written = NoWrite /\ orig0 = <<>> /\ ppc = "idle"
    /\ handle = NoMatrix /\ outHandle = NoMatrix /\ valOut = <<>>
    /\ retCode = "none" /\ lastCall = NoCall /\ bpc = "idle"
    /\ wpivot = <<>> /\ wpc = <<>> /\ wops = <<>>

\* UnblockedPivoted (blocked = FALSE) and BlockedPivoted (blocked = TRUE) up
\* to their loop
EnterPivoted(blocked) ==
    /\ epc = "call"
    /\ call.routine = IF blocked THEN "BlockedPivoted" ELSE "UnblockedPivoted"
    /\ LET nn == operands.A.h
       IN  IF ~call.release /\ PivotedCheck(operands) # "none"
           THEN /\ eerr' = PivotedCheck(operands)
                /\ epc' = "raised"
                /\ operands' = operands
           ELSE IF nn = 0 /\ HasEmptyReturn(blocked, call.isDist)
           THEN /\ operands' = [operands EXCEPT !.dSub = Shape(0, 1), !.p = Shape(0, 1)]
                /\ epc' = "returned"
                /\ eerr' = "none"
           ELSE IF nn = 0 /\ ~call.release
           THEN \* Zeros( dSub, -1, 1 ) is rejected by the resize
                /\ eerr' = "resize"
                /\ epc' = "raised"
                /\ operands' = operands
           ELSE /\ operands' = SizeOutputs(operands, nn)
                /\ epc' = "loop"
                /\ eerr' = "none"
    /\ UNCHANGED <<ldlVars, proxyVars, bindVars, workerVars, call, operands0>>

\* PanelPivoted up to its loop
EnterPanelPivoted ==
    /\ epc = "call"
    /\ call.routine = "PanelPivoted"
    /\ LET nn == operands.A.h
       IN  IF nn = 0
           THEN /\ epc' = "returned"
                /\ eerr' = "none"
                /\ operands' = operands
           ELSE IF ~call.release /\ PanelPivotedCheck(operands) # "none"
           THEN /\ eerr' = PanelPivotedCheck(operands)
                /\ epc' = "raised"
                /\ operands' = operands
           ELSE /\ operands' =
                      SizeFactors(IF call.isDist THEN AlignWith(operands, call.off)
                                  ELSE operands,
                                  nn, call.off, call.bsize)
                /\ epc' = "panel_loop"
                /\ eerr' = "none"
    /\ UNCHANGED <<ldlVars, proxyVars, bindVars, workerVars, call, operands0>>

\* the head of PanelBunchKaufmanA / D: the alignment check of the DistMatrix
\* overload; the Matrix overload has none
SelectionCheck ==
    IF call.isDist /\ Misaligned(operands, call.off)
    THEN /\ eerr' = "X and Y were not properly aligned with A"
         /\ epc' = "raised"
    ELSE /\ eerr' = "none"
         /\ epc' = "selecting"

\* first pivot selection of the loop of PanelPivoted, on ABR, X and Y
PanelSelect ==
    /\ epc = "panel_loop"
    /\ SelectionCheck
    /\ UNCHANGED <<ldlVars, proxyVars, bindVars, workerVars, call, operands, operands0>>

\* PanelBunchKaufmanA / D called with the caller's own A, X and Y
CallSelection ==
    /\ epc = "call"
    /\ call.routine \in SelectRoutines
    /\ SelectionCheck
    /\ UNCHANGED <<ldlVars, proxyVars, bindVars, workerVars, call, operands, operands0>>

NextEntry ==
    \/ EnterPivoted(FALSE)
    \/ EnterPivoted(TRUE)
    \/ EnterPanelPivoted
    \/ PanelSelect
    \/ CallSelection

SpecEntry == InitEntry /\ [][NextEntry]_vars

\* ------------------------------------------------------------------------
\* Claims about the rejection of operands that violate a precondition
\* ------------------------------------------------------------------------
\* the precondition on the sizes that the routine states
SizeViolation ==
    \/ /\ call.routine \in FactorRoutines
       /\ operands0.A.h # operands0.A.w
    \/ /\ call.routine = "PanelPivoted"
       /\ \/ operands0.dSub # Shape(operands0.A.h - 1, 1)
          \/ operands0.p # Shape(operands0.A.h, 1)

AlignViolation == call.routine \in SelectRoutines /\ call.isDist /\ Misaligned(operands0, 0)

SizeMessages == {"A must be square", "dSub is the wrong size", "pivot vector is the wrong size"}

\* C25: a call whose operands violate a precondition (a non-square A, a dSub
\* or p of the wrong size in PanelPivoted, misaligned X or Y in the
\* distributed pivot selection) never gets past the checks: it is at the
\* call or has raised a logic error; a size error leaves the operands as
\* they were, and inside PanelPivoted the alignment check does not fail
C25_ViolationRejected ==
    /\ SizeViolation => (epc \in {"call", "raised"} /\ (epc = "raised" => eerr \in SizeMessages))
    /\ AlignViolation => (epc \in {"call", "raised"})
    /\ eerr \in SizeMessages => operands = operands0
    /\ (call.routine = "PanelPivoted" /\ epc = "raised") => eerr \in SizeMessages

\* what the code does guarantee: a build without RELEASE rejects every size
\* violation on an A of non-zero height before it writes an operand, the
\* alignment check is in every build, and PanelPivoted never fails it
C25_ChecksOfCheckedBuild ==
    /\ (SizeViolation /\ ~call.release /\ operands0.A.h # 0) =>
          (epc \in {"call", "raised"} /\ (epc = "raised" => eerr \in SizeMessages))
    /\ AlignViolation => (epc \in {"call", "raised"})
    /\ eerr \in SizeMessages => operands = operands0
    /\ (call.routine = "PanelPivoted" /\ epc = "raised") => eerr \in SizeMessages

\* a non-square A of height 0 that PanelPivoted returned from without an error
C25_EmptyNonSquareAccepted ==
    /\ call.routine = "PanelPivoted" /\ ~call.release
    /\ operands0.A.h = 0 /\ operands0.A.w # 0
    /\ epc = "returned" /\ eerr = "none"

\* ------------------------------------------------------------------------
\* Claims about a write or read-write proxy destroyed while an error
\* propagates
\* ------------------------------------------------------------------------
DestroyedOnError ==
    /\ ppc = "destroyed" /\ unwinding
    /\ proxy.kind \in {"write", "readwrite"}

\* the source has the size and the entries it had when the proxy was built
SourceAsBuilt == Entries(orig) = orig0

\* C26 as stated: after a write or read-write proxy was destroyed while an
\* error propagated, the source has the size and the contents it had when
\* the proxy was constructed
C26_SourceRestoredOnError == DestroyedOnError => SourceAsBuilt

\* C26: after a write or read-write proxy that holds a copy of its own was
\* destroyed while an error propagated, nothing was copied back and the
\* source has the size and the contents it had when the proxy was
\* constructed; a proxy that is the source itself has passed every write on
\* to the source at once
C26_CopyNotWrittenBackOnError ==
    /\ (DestroyedOnError /\ proxy.needWriteCopy) =>
          /\ SourceAsBuilt
          /\ CountOf(events, "CopyBack") = 0
    /\ (DestroyedOnError /\ ~proxy.needWriteCopy /\ written # NoWrite) =>
          GlobalGet(orig, written.i, written.j) = written.v

C26_Witness ==
    /\ DestroyedOnError /\ proxy.kind = "readwrite" /\ proxy.needWriteCopy
    /\ written # NoWrite
    /\ orig0[<<written.i, written.j>>] # Cast(proxy.T, orig.type, written.v)

\* ------------------------------------------------------------------------
\* Claims about the pairs ElDistMatrixGetDiagonal accepts
\* ------------------------------------------------------------------------
\* C27: a matrix that ElDistMatrixCreateSpecific created, in any of the
\* pairs it creates, is never refused by ElDistMatrixGetDiagonal as an
\* invalid distribution pair
C27_CreatedPairAccepted ==
    (lastCall.name = "GetDiagonal" /\ CreatesPair(handle.colDist, handle.rowDist)) =>
        /\ lastCall.raised # "runtime_error"
        /\ retCode # "EL_RUNTIME_ERROR"

\* the pairs that can be created and whose diagonal is refused
C27_RefusedPairs == DistPairs \ DOMAIN DiagonalPairs

\* a matrix created as (MR,MC), as in the bundled example, refused
C27_ExamplePairRefused ==
    /\ lastCall.name = "GetDiagonal" /\ retCode = "EL_RUNTIME_ERROR"
    /\ handle.colDist = "MR" /\ handle.rowDist = "MC"
    /\ C27_RefusedPairs = {<<"MR", "MC">>, <<"MR", "STAR">>}

\* ------------------------------------------------------------------------
\* Claims about the indices of a swap and the entries of p
\* ------------------------------------------------------------------------
PanelStepTaken == pc = "panel_pivot" /\ pc' = "panel"

\* the positions of p a step writes: those of its pivot columns
StepColumns == (k + kp)..(k + kp + pivot.nb - 1)

InBlockedRun == bsize >= 1 /\ pivotType \in {"BUNCH_KAUFMAN_A", "BUNCH_KAUFMAN_D"}

\* every completed position of p holds an index at or below its own row
\* and above the matrix end, every other position is unwritten
PermSoFar ==
    LET done == IF pc = "done" THEN n ELSE Completed
    IN  \A i \in 0..(n - 1) :
           IF i < done THEN i <= p[i] /\ p[i] < n ELSE p[i] = -1

\* C28: in every panel step that fits, off+k <= to <= from < n; the step
\* writes the positions of p of its own columns, which were unwritten, and
\* no other; while BlockedPivoted runs with strategy A or D the completed
\* positions hold i <= p[i] < n, and all of them do when it returns
C28_SwapAndPermBounds ==
    /\ [][PanelStepTaken =>
            /\ k + kp <= PanelTo(k, kp, pivot)
            /\ PanelTo(k, kp, pivot) <= PanelFrom(k, pivot)
            /\ PanelFrom(k, pivot) < n
            /\ last'.swaps = << <<PanelTo(k, kp, pivot), PanelFrom(k, pivot)>> >>
            /\ \A i \in 0..(n - 1) :
                  IF i \in StepColumns THEN p[i] = -1 /\ i <= p'[i] /\ p'[i] < n
                  ELSE p'[i] = p[i]]_vars
    /\ []((InBlockedRun /\ pc \in {"blocked", "panel", "panel_pivot", "update"}) => PermSoFar)
    /\ []((InBlockedRun /\ pc = "done" /\ err = "none") => (pH = n /\ PermSoFar))

C28_Witness ==
    /\ InBlockedRun /\ pc = "done" /\ err = "none" /\ n = 3
    /\ p[0] = 1 /\ p[1] = 1 /\ p[2] = 2
    /\ last.in = "panel" /\ last.kind = "2x2" /\ last.off = 1

\* ------------------------------------------------------------------------
\* Claims about what an overflowing step leaves behind
\* ------------------------------------------------------------------------
OverflowTaken == pc = "panel_pivot" /\ pc' = "update"

FirstColumns(Z, w) == [i \in DOMAIN Z |-> [j \in 0..(w - 1) |-> Z[i][j]]]

\* the first selection of the panel that follows an overflow
ChosenAfterOverflow == pc = "panel" /\ pc' = "panel_pivot" /\ kp = 0 /\ last.kind = "overflow"

\* C29: a step that overflows swaps nothing and writes neither A, dSub nor
\* p; X and Y keep their first k columns and lose the others; the panel that
\* BlockedPivoted opens next selects, as its first pivot, the pivot that
\* overflowed, with its indices counted from the new offset
C29_OverflowFrame ==
    /\ [][OverflowTaken =>
            /\ A' = A /\ dSub' = dSub /\ p' = p /\ dSubH' = dSubH /\ pH' = pH
            /\ k' = k /\ kp' = kp /\ pivot' = pivot
            /\ last'.swaps = <<>> /\ last'.swapsX = <<>> /\ last'.swapsY = <<>>
            /\ XW' = kp /\ YW' = kp
            /\ X' = FirstColumns(X, kp) /\ Y' = FirstColumns(Y, kp)]_vars
    /\ [][ChosenAfterOverflow => pivot' = ShiftPivot(pivot, last.off - k)]_vars

C29_Witness ==
    /\ pc = "panel_pivot" /\ kp = 0 /\ last.kind = "overflow" /\ k = last.off + 1
    /\ pivot.status = "ok" /\ pivot.nb = 2
    /\ A[k][k] # A0[k][k]

\* ------------------------------------------------------------------------
\* Claims about the operands of the second test of a search
\* ------------------------------------------------------------------------
Searching == pc \in {"unblocked_pivot", "panel_pivot"} /\ pivotType \in {"BUNCH_KAUFMAN_A", "BUNCH_KAUFMAN_D"}

\* the block the search at hand read, its height and its first column
SearchedBlock == IF pc = "panel_pivot" THEN CorrectedBR ELSE ViewBR(A, k, n)

SearchedHeight == IF pc = "panel_pivot" THEN n - k - kp ELSE n - k

SearchedFrom == IF pc = "panel_pivot" THEN kp ELSE 0

Threshold == IF pivotType = "BUNCH_KAUFMAN_D" THEN GammaD(gamma) ELSE GammaA(gamma)

\* alpha11Abs, a21Max.value and rowMaxVal of the search, as squared magnitudes
Alpha == AbsSq(SearchedBlock[0][0])

Omega == VectorMax([i \in 1..(SearchedHeight - 1) |-> SearchedBlock[i][0]])

Rho == SearchRowMax(SearchedBlock, SearchedHeight, Omega.index + 1, pivotType = "BUNCH_KAUFMAN_D")

\* the search neither raised on a zero column nor returned at its first test
SecondTestReached ==
    /\ Searching
    /\ ~(Omega.value = RZero /\ Alpha = RZero)
    /\ ~GeGamma(Threshold, Alpha, Omega.value)

\* C30: a search that comes to its second test has rho >= omega > 0, so
\* omega/rho divides by a non-zero value and is at most 1; the test then
\* decides for the 1x1 pivot at the front exactly when
\* alpha >= gamma*omega*(omega/rho)
C30_SecondTestOperands ==
    SecondTestReached =>
        /\ RLess(RZero, Omega.value)
        /\ RLess(RZero, Rho)
        /\ RLeq(Omega.value, Rho)
        /\ (pivot = Pivot1(SearchedFrom)) <=> GeGammaRatio(Threshold, Alpha, Omega.value, Rho)

\* the second test decides for the 1x1 pivot with rho > omega
C30_Witness ==
    /\ SecondTestReached
    /\ RLess(Omega.value, Rho)
    /\ pivot = Pivot1(SearchedFrom)
====
